---- MODULE Spec2Model ----
(***************************************************************************)
(* The client-side annotation store (AnnotationStoreManager), its autosave *)
(* debounce timer, the persistence gateway calls it makes and the App      *)
(* handlers that drive saving, loading and syncing.                        *)
(*                                                                         *)
(* The browser is single threaded: every handler below runs to completion  *)
(* as one action; an `await` splits a handler into the action that issues  *)
(* the gateway call and the actions that continue it when the promise      *)
(* settles.                                                                *)
(***************************************************************************)
EXTENDS Integers, Sequences, FiniteSets, TLC

VARIABLES
    annotations,        \* store.annotations: the flat ordered collection
    selectedAnnotation, \* store.selectedAnnotation: <<>> (null) or <<record>>
    isDirty,            \* store.isDirty
    isSaving,           \* store.isSaving
    lastSaved,          \* store.lastSaved: 0 (null) or the ordinal of the save that set it
    saveTimeout,        \* the handle field: "null", "pending" (names the newest timer) or "fired"
    saveTimers,         \* pending autosave timeouts of the runtime: their remaining delays
    nextUuid,           \* how many ids crypto.randomUUID has handed out
    currentJson,        \* App.currentJson: "" or the selected JSON file
    isSyncing,          \* App.isSyncing
    syncPc,             \* where App.syncAnnotations stands: "idle", "saving", "uploading"
    savesInFlight,      \* gateway saveAnnotations calls not yet settled: [caller, file, data]
    loadsInFlight,      \* gateway loadAnnotations calls not yet settled: the file names
    textUpdateTimeouts, \* the ids that have an entry in the textUpdateTimeouts map
    textTimers,         \* pending text timeouts of the runtime: [id, text, left]
    listeners,          \* the listeners array: [id, once]; a `once` listener unsubscribes when called
    syncs,              \* App.syncAnnotations invocations between the guard and the finally
    currentPage,        \* PdfViewer.currentPage
    canvas,             \* the canvas: [width, height, page]; page: whose viewport sized it (0: none)
    overlay,            \* the overlay's box: [offsetWidth, offsetHeight, styled]
    pageRenders,        \* renderPage calls awaiting pdfService.renderPage: the page numbers
    rendered,           \* the children of the overlay: [boxes, page, shown, width, height,
                        \* selectionBoxes, resizeOverlays]
    isCreatingAnnotation, \* PdfViewer.isCreatingAnnotation
    startPoint,         \* PdfViewer.startPoint: <<>> (null) or <<[x, y]>>
    selectedBox,        \* PdfViewer.selectedBox: <<>> or <<the box's style [left, top, width, height]>>
    isDragging,         \* PdfViewer.isDragging
    isResizing,         \* PdfViewer.isResizing
    dragOffset,         \* PdfViewer.dragOffset: [x, y]
    selectionBox,       \* PdfViewer.selectionBox: <<>> or <<its style>>
    activeAnnotation,   \* PdfViewer.activeAnnotation: <<>> or <<annotation>>
    resizeStartBounds,  \* PdfViewer.resizeStartBounds: <<>> or <<[left, top, width, height]>>
    oppositeCorner,     \* PdfViewer.oppositeCorner: <<>> or <<[x, y]>>
    resizeOverlay,      \* PdfViewer.resizeOverlay: <<>> or <<its style>>
    extractions,        \* finishCreatingAnnotation calls awaiting the text of their rectangle
    drawn,              \* history: per draw gesture, the annotations it added
    durable,            \* history: the collection as of the last replaceAll or successful save
    quiet,              \* history: time since the last mutating store call (saturates)
    fired,              \* history: autoSaveRequested events since the last mutating store call
    bursting,           \* history: the last mutating call came within the window of the one before
    typed,              \* history: per id, its last text edit: [text, quiet, runs, flushed, burst]
    calls,              \* history: the listeners the last notify() called, in order
    last                \* history: the handler that ran last, its arguments and outcome

storeVars == <<annotations, selectedAnnotation, isDirty, isSaving, lastSaved>>
timerVars == <<saveTimeout, saveTimers>>
appVars   == <<currentJson, isSyncing, syncPc>>
netVars   == <<savesInFlight, loadsInFlight>>
textVars  == <<textUpdateTimeouts, textTimers, typed>>
pageVars  == <<currentPage, canvas, overlay, pageRenders>>
gestureVars ==
    <<isCreatingAnnotation, startPoint, selectedBox, isDragging, isResizing, dragOffset,
      selectionBox, activeAnnotation, resizeStartBounds, oppositeCorner, resizeOverlay,
      extractions, drawn>>
viewerVars == <<pageVars, gestureVars>>
histVars  == <<durable, quiet, fired, bursting, calls, last>>
vars      == <<storeVars, timerVars, nextUuid, appVars, netVars, textVars, listeners, syncs,
               viewerVars, rendered, histVars>>

----------------------------------------------------------------------------
(* Bounds of the model *)

MaxLen      == 3    \* the collection never grows beyond this many annotations
MaxFresh    == 3    \* randomUUID calls per behaviour
MaxSaves    == 1    \* gateway saves that succeed per behaviour (later ones fail)
MaxLoads    == 1    \* gateway loads in flight at once
MaxFileId   == 2    \* the ids a loaded file may carry are 1..MaxFileId
EditMaxLen  == 1    \* Spec, SpecDebounce: annotations drawn into the collection
EditMaxFresh == 1   \* Spec, SpecDebounce: annotations drawn per behaviour
GeomMaxLen  == 2    \* SpecGeom: annotations loaded, and the length up to which more are drawn
MantissaBits == 6       \* significant bits of a number of the viewer
FractionBits == 8       \* the smallest number of the viewer is 2^-FractionBits
MaxPreviews == 2        \* preview elements of one kind attached to the overlay
MaxRenders == 1         \* renderPage calls in flight
MaxGestures == 2        \* draw gestures that are followed
SortedLen == 4          \* SpecSorted: annotations loaded
MaxExtractions == 2     \* text extractions in flight
MaxListeners == 2   \* SpecListen: listeners that subscribe

(* Program constants *)

\* a canvas element before it is sized, in px
DefaultCanvasWidth == 300
DefaultCanvasHeight == 150
\* the minimum footprint of a resized rectangle (minSize), and the footprint a
\* drawn rectangle must exceed, in px
MinSize == 10
MinDrawn == 10
AutoSaveDelay == 2000   \* ms, scheduleAutoSave
TextDelay     == 500    \* ms, debounceTextUpdate
Quantum       == TextDelay   \* the step of the model's clock
TextQuantum   == TextDelay \div 2   \* the finer step, for edits within one text window

----------------------------------------------------------------------------
(* Values *)

Fields    == {"id", "left", "top", "width", "height", "page_number",
              "page_width", "page_height", "text", "type"}
RawFields == Fields \ {"id"}
Types     == {"Title", "Section header", "Text", "Picture", "Table", "List item",
              "Formula", "Footnote", "Page header", "Page footer", "Caption"}

Abs(n) == IF n < 0 THEN -n ELSE n

\* crypto.randomUUID: the k-th generated id; generated ids never collide with
\* each other nor with the ids a file carries (1..MaxFileId).
Uuid(k) == MaxFileId + k

\* { ...a, ...p }
Merge(a, p) == [f \in DOMAIN a \cup DOMAIN p |-> IF f \in DOMAIN p THEN p[f] ELSE a[f]]

Restrict(r, S) == [f \in S |-> r[f]]

\* RawAnnotationSchema: the nine fields with their constraints
RawAnnotationSchema(x) ==
    /\ RawFields \subseteq DOMAIN x
    /\ x.width >= 0
    /\ x.height >= 0
    /\ x.page_number > 0
    /\ x.page_width > 0
    /\ x.page_height > 0
    /\ x.type \in Types

\* AnnotationSchema: RawAnnotationSchema extended with a non-empty string id
\* (the empty string is modelled as id 0)
AnnotationSchema(x) ==
    /\ RawAnnotationSchema(x)
    /\ "id" \in DOMAIN x
    /\ x.id # 0

\* FlexibleAnnotationSchema.safeParse(x).success
FlexibleAnnotationSchema(x) == AnnotationSchema(x) \/ RawAnnotationSchema(x)

\* FlexibleAnnotationSchema.safeParse(x).data: the first member of the union
\* that accepts x, unknown keys stripped
FlexibleData(x) ==
    IF AnnotationSchema(x) THEN Restrict(x, Fields) ELSE Restrict(x, RawFields)

\* 'id' in data && data.id
HasId(d) == "id" \in DOMAIN d /\ d.id # 0

----------------------------------------------------------------------------
(* AnnotationStoreManager: the pure parts *)

\* as AssignIds, but one generated id serves every item that lacks one
RECURSIVE AssignIdsSameId(_, _)
AssignIdsSameId(ds, k) ==
    IF ds = <<>> THEN <<>>
    ELSE IF HasId(Head(ds))
         THEN <<Head(ds)>> \o AssignIdsSameId(Tail(ds), k)
         ELSE <<Merge(Head(ds), [id |-> Uuid(k + 1)])>> \o AssignIdsSameId(Tail(ds), k)

\* the accepted items get ids: an item that has one keeps it, the others get
\* crypto.randomUUID(), drawn in order; k ids were handed out before
RECURSIVE AssignIds(_, _)
AssignIds(ds, k) ==
    IF ds = <<>> THEN <<>>
    ELSE IF HasId(Head(ds))
         THEN <<Head(ds)>> \o AssignIds(Tail(ds), k)
         ELSE <<Merge(Head(ds), [id |-> Uuid(k + 1)])>> \o AssignIds(Tail(ds), k + 1)

\* as SetAnnotationsResult, but one invalid item rejects the whole array
SetAnnotationsResultAllOrNothing(raw, k) ==
    IF \A i \in 1..Len(raw) : FlexibleAnnotationSchema(raw[i])
    THEN AssignIds([i \in 1..Len(raw) |-> FlexibleData(raw[i])], k)
    ELSE <<>>

\* setAnnotations: the collection it stores for the array `raw`
SetAnnotationsResult(raw, k) ==
    IF \A i \in 1..Len(raw) : FlexibleAnnotationSchema(raw[i])
    THEN \* the array parsed: validationResult.data.map(...)
         AssignIds([i \in 1..Len(raw) |-> FlexibleData(raw[i])], k)
    ELSE \* per-item validation: the valid items, in order
         LET valid == SelectSeq(raw, FlexibleAnnotationSchema)
         IN  AssignIds([i \in 1..Len(valid) |-> FlexibleData(valid[i])], k)

\* addAnnotation, first loop: the index after the last annotation of the page,
\* scanning from the end (i is 1-based; 0: none found)
RECURSIVE LastOfPage(_, _, _)
LastOfPage(anns, page, i) ==
    IF i = 0 THEN 0
    ELSE IF anns[i].page_number = page THEN i
    ELSE LastOfPage(anns, page, i - 1)

\* addAnnotation, second loop: scanning from the start, move past every
\* annotation whose page is <= page and stop at the first later page
RECURSIVE PastEarlierPages(_, _, _)
PastEarlierPages(anns, page, i) ==
    IF i > Len(anns) THEN i - 1
    ELSE IF anns[i].page_number <= page THEN PastEarlierPages(anns, page, i + 1)
    ELSE i - 1

\* addAnnotation: insertIndex (the number of annotations before the new one)
InsertIndex(anns, page) ==
    IF LastOfPage(anns, page, Len(anns)) # 0
    THEN LastOfPage(anns, page, Len(anns))
    ELSE PastEarlierPages(anns, page, 1)

\* anns.splice(idx, 0, a)
Splice(anns, idx, a) ==
    SubSeq(anns, 1, idx) \o <<a>> \o SubSeq(anns, idx + 1, Len(anns))

\* annotations.findIndex(a => a.id === id), 1-based; 0: not found
RECURSIVE FindIndexFrom(_, _, _)
FindIndexFrom(anns, id, i) ==
    IF i > Len(anns) THEN 0
    ELSE IF anns[i].id = id THEN i
    ELSE FindIndexFrom(anns, id, i + 1)

FindIndex(anns, id) == FindIndexFrom(anns, id, 1)

\* updateAnnotation: normalizedUpdates
NormalizedUpdates(updates) ==
    [f \in DOMAIN updates |->
        IF f \in {"width", "height"} THEN Abs(updates[f]) ELSE updates[f]]

\* updateAnnotation: the collection after the update of the record at index
UpdatedAt(anns, index, updates) ==
    [anns EXCEPT ![index] = Merge(anns[index], NormalizedUpdates(updates))]

\* annotations.filter(a => a.id !== id)
RECURSIVE Without(_, _)
Without(anns, id) ==
    IF anns = <<>> THEN <<>>
    ELSE IF Head(anns).id = id THEN Without(Tail(anns), id)
    ELSE <<Head(anns)>> \o Without(Tail(anns), id)

\* getAnnotationsForPage
RECURSIVE AnnotationsForPage(_, _)
AnnotationsForPage(anns, page) ==
    IF anns = <<>> THEN <<>>
    ELSE IF Head(anns).page_number = page
         THEN <<Head(anns)>> \o AnnotationsForPage(Tail(anns), page)
         ELSE AnnotationsForPage(Tail(anns), page)

IdsOf(anns) == [i \in 1..Len(anns) |-> anns[i].id]
Range(s) == {s[i] : i \in 1..Len(s)}

\* new Map(annotations.map(a => [a.id, a])).get(id): a later entry of the
\* same key replaces the earlier one
RECURSIVE LastIndexOf(_, _, _)
LastIndexOf(anns, id, i) ==
    IF i = 0 THEN 0
    ELSE IF anns[i].id = id THEN i
    ELSE LastIndexOf(anns, id, i - 1)

ById(anns, id) == anns[LastIndexOf(anns, id, Len(anns))]
ByIdHas(anns, id) == LastIndexOf(anns, id, Len(anns)) # 0

\* reorderAnnotations: the checks that make it return early
ReorderRejected(anns, newIds) ==
    \/ Len(newIds) = 0
    \/ \E i \in 1..Len(newIds) : ~ByIdHas(anns, newIds[i])
    \/ LET pageNumber == ById(anns, newIds[1]).page_number
           pageIds == IdsOf(AnnotationsForPage(anns, pageNumber))
           sameCardinality == Len(pageIds) = Len(newIds)
           sameMembers == /\ sameCardinality
                          /\ Cardinality(Range(pageIds)) = Cardinality(Range(newIds))
                          /\ \A i \in 1..Len(pageIds) : pageIds[i] \in Range(newIds)
       IN  ~sameMembers

\* reorderAnnotations: the map over the collection; nextIndex counts the
\* annotations of the page met so far
RECURSIVE ReplaceInPlace(_, _, _, _)
ReplaceInPlace(anns, pageNumber, nextByOrder, nextIndex) ==
    IF anns = <<>> THEN <<>>
    ELSE IF Head(anns).page_number = pageNumber
         THEN <<nextByOrder[nextIndex]>>
              \o ReplaceInPlace(Tail(anns), pageNumber, nextByOrder, nextIndex + 1)
         ELSE <<Head(anns)>>
              \o ReplaceInPlace(Tail(anns), pageNumber, nextByOrder, nextIndex)

Reordered(anns, newIds) ==
    LET pageNumber == ById(anns, newIds[1]).page_number
        nextByOrder == [i \in 1..Len(newIds) |-> ById(anns, newIds[i])]
    IN  ReplaceInPlace(anns, pageNumber, nextByOrder, 1)

----------------------------------------------------------------------------
(* PdfViewer: numbers. The viewer computes in floating point: a number is   *)
(* kept here as an integer count of 2^-FractionBits, and the result of an   *)
(* arithmetic operation is rounded to MantissaBits significant bits, ties   *)
(* to even, as the result of the same operation on doubles is rounded to 53 *)

Unit == 2 ^ FractionBits

\* the integer n as a number
Px(n) == n * Unit

\* the spacing of the representable numbers around q
RECURSIVE Ulp(_)
Ulp(q) == IF q < 2 ^ MantissaBits THEN 1 ELSE 2 * Ulp(q \div 2)

\* num / den to the nearest integer, ties to the even one (num >= 0, den > 0)
HalfEven(num, den) ==
    LET f == num \div den
        r == num % den
    IN  IF 2 * r < den THEN f
        ELSE IF 2 * r > den THEN f + 1
        ELSE IF f % 2 = 0 THEN f ELSE f + 1

\* the representable number nearest to num / den (den > 0)
Round(num, den) ==
    LET u == Ulp(Abs(num) \div den)
    IN  IF num >= 0 THEN u * HalfEven(num, den * u) ELSE -(u * HalfEven(-num, den * u))

\* a * b, a / b (b > 0), a + b, a - b
Mul(a, b) == Round(a * b, Unit)
Div(a, b) == Round(a * Unit, b)
Add(a, b) == Round(a + b, 1)
Sub(a, b) == Round(a - b, 1)

MathMax(a, b) == IF a >= b THEN a ELSE b

----------------------------------------------------------------------------
(* PdfViewer: the elements of the overlay *)

\* (mutant) createAnnotationElement with the horizontal scale for all four
CreateAnnotationElementOneScale(annotation, cv) ==
    LET page_width == IF annotation.page_width # 0 THEN annotation.page_width ELSE cv.width
        scaleX == Div(cv.width, page_width)
    IN  [left   |-> Mul(annotation.left, scaleX),
         top    |-> Mul(annotation.top, scaleX),
         width  |-> Mul(annotation.width, scaleX),
         height |-> Mul(annotation.height, scaleX)]

\* createAnnotationElement: the style of the box of an annotation on a
\* canvas of the size cv
CreateAnnotationElement(annotation, cv) ==
    LET page_width  == IF annotation.page_width # 0 THEN annotation.page_width ELSE cv.width
        page_height == IF annotation.page_height # 0 THEN annotation.page_height
                       ELSE cv.height
        scaleX == Div(cv.width, page_width)
        scaleY == Div(cv.height, page_height)
    IN  [left   |-> Mul(annotation.left, scaleX),
         top    |-> Mul(annotation.top, scaleY),
         width  |-> Mul(annotation.width, scaleX),
         height |-> Mul(annotation.height, scaleY)]

\* handle.includes('e'), handle.includes('s') for the classes of the handles
Handles == {"nw", "ne", "sw", "se"}
IncludesE(handle) == handle \in {"ne", "se"}
IncludesS(handle) == handle \in {"sw", "se"}

----------------------------------------------------------------------------
(* The initial state: the store as constructed, no file selected *)

Init ==
    /\ annotations = <<>>
    /\ selectedAnnotation = <<>>
    /\ isDirty = FALSE
    /\ isSaving = FALSE
    /\ lastSaved = 0
    /\ saveTimeout = "null"
    /\ saveTimers = <<>>
    /\ nextUuid = 0
    /\ currentJson = ""
    /\ isSyncing = FALSE
    /\ syncPc = "idle"
    /\ savesInFlight = <<>>
    /\ loadsInFlight = <<>>
    /\ textUpdateTimeouts = {}
    /\ textTimers = <<>>
    /\ listeners = <<>>
    /\ syncs = 0
    /\ typed = <<>>
    /\ calls = <<>>
    /\ currentPage = 1
    /\ canvas = [width |-> Px(DefaultCanvasWidth), height |-> Px(DefaultCanvasHeight),
                 page |-> 0]
    /\ overlay = [offsetWidth |-> 0, offsetHeight |-> 0, styled |-> FALSE]
    /\ pageRenders = <<>>
    /\ rendered = [boxes |-> <<>>, page |-> 1, shown |-> 0,
                   width |-> Px(DefaultCanvasWidth), height |-> Px(DefaultCanvasHeight),
                   selectionBoxes |-> 0, resizeOverlays |-> 0]
    /\ isCreatingAnnotation = FALSE
    /\ startPoint = <<>>
    /\ selectedBox = <<>>
    /\ isDragging = FALSE
    /\ isResizing = FALSE
    /\ dragOffset = [x |-> 0, y |-> 0]
    /\ selectionBox = <<>>
    /\ activeAnnotation = <<>>
    /\ resizeStartBounds = <<>>
    /\ oppositeCorner = <<>>
    /\ resizeOverlay = <<>>
    /\ extractions = <<>>
    /\ drawn = <<>>
    /\ durable = <<>>
    /\ quiet = AutoSaveDelay
    /\ fired = 0
    /\ bursting = FALSE
    /\ last = [op |-> "init", arg |-> <<>>, notified |-> FALSE, out |-> "none"]

RemoveAt(s, i) == SubSeq(s, 1, i - 1) \o SubSeq(s, i + 1, Len(s))

\* Array.prototype.indexOf: the first position of x in s, 0 when absent
IndexOf(s, x) ==
    IF \E i \in 1..Len(s) : s[i] = x
    THEN CHOOSE i \in 1..Len(s) : s[i] = x /\ \A j \in 1..(i - 1) : s[j] # x
    ELSE 0

\* the function subscribe() returns: indexOf, and splice when found
Unsubscribed(ls, l) ==
    IF IndexOf(ls, l) # 0 THEN RemoveAt(ls, IndexOf(ls, l)) ELSE ls

\* notify(): listeners.forEach over the array itself. forEach visits the
\* positions below the length it read at the start, skipping those the array
\* no longer has; a listener that unsubscribes when called splices the array
\* while the loop runs
RECURSIVE ForEach(_, _, _, _)
ForEach(ls, i, k, acc) ==
    IF i > k \/ i > Len(ls)
    THEN [listeners |-> ls, calls |-> acc]
    ELSE ForEach(IF ls[i].once THEN Unsubscribed(ls, ls[i]) ELSE ls,
                 i + 1, k, Append(acc, ls[i].id))

Notify(ls) == ForEach(ls, 1, Len(ls), <<>>)

\* history: what the handler that just ran was, and whether it called notify()
Ran(op, arg, notified, out) ==
    last' = [op |-> op, arg |-> arg, notified |-> notified, out |-> out]

\* (mutant) renderAnnotations emptying the overlay before it adds the boxes
RenderAnnotationsClearingOverlay(children, anns, page, cv) ==
    [children EXCEPT !.boxes = AnnotationsForPage(anns, page), !.page = page,
                     !.shown = cv.page, !.width = cv.width, !.height = cv.height,
                     !.selectionBoxes = 0, !.resizeOverlays = 0]

\* PdfViewer.renderAnnotations: the annotation boxes of the overlay are
\* replaced by one box per annotation of the current page, laid out for the
\* canvas as it is (page: the page the boxes are of; shown: the page the
\* canvas was sized for; width, height: the size of the canvas); the other
\* children of the overlay stay
RenderAnnotations(children, anns, page, cv) ==
    [children EXCEPT !.boxes = AnnotationsForPage(anns, page), !.page = page,
                     !.shown = cv.page, !.width = cv.width, !.height = cv.height]

\* notify() called k times in one handler
RECURSIVE NotifyTimes(_, _, _)
NotifyTimes(ls, cs, k) ==
    IF k = 0 THEN [listeners |-> ls, calls |-> cs]
    ELSE NotifyTimes(Notify(ls).listeners, Notify(ls).calls, k - 1)

\* the end of a handler: notify() when the handler calls it. The viewer's
\* listener, subscribed by its constructor, renders the annotations; the
\* other listeners are called as notify() finds them
Did(op, arg, notified, out) ==
    /\ Ran(op, arg, notified, out)
    /\ IF notified
       THEN /\ listeners' = Notify(listeners).listeners
            /\ calls' = Notify(listeners).calls
            /\ rendered' = RenderAnnotations(rendered, annotations', currentPage, canvas)
       ELSE UNCHANGED <<listeners, calls, rendered>>

\* history: a mutating store call just happened
Touched == quiet' = 0 /\ fired' = 0 /\ bursting' = (quiet < AutoSaveDelay)

----------------------------------------------------------------------------
(* AnnotationStoreManager: the methods *)

\* (mutant) scheduleAutoSave without its clearTimeout
ScheduleAutoSaveNoClear ==
    /\ saveTimers' = Append(saveTimers, AutoSaveDelay)
    /\ saveTimeout' = "pending"

\* scheduleAutoSave: clearTimeout(this.saveTimeout) removes the timer the
\* handle names if it is still pending; setTimeout adds a fresh one
ScheduleAutoSave ==
    /\ saveTimers' = Append(IF saveTimeout = "pending"
                            THEN SubSeq(saveTimers, 1, Len(saveTimers) - 1)
                            ELSE saveTimers,
                            AutoSaveDelay)
    /\ saveTimeout' = "pending"

\* how many ids setAnnotations draws for `raw`: one per accepted item that
\* the schema with the id did not accept
NumDrawn(raw) ==
    Cardinality({i \in 1..Len(raw) :
                    FlexibleAnnotationSchema(raw[i]) /\ ~AnnotationSchema(raw[i])})

\* as StoreSetAnnotations, but the dirty flag is left as it was
StoreSetAnnotationsKeepingDirty(raw) ==
    /\ nextUuid + NumDrawn(raw) <= MaxFresh
    /\ annotations' = SetAnnotationsResult(raw, nextUuid)
    /\ nextUuid' = nextUuid + NumDrawn(raw)
    /\ durable' = annotations'
    /\ UNCHANGED <<selectedAnnotation, isDirty, isSaving, lastSaved, timerVars, quiet, fired,
                   bursting>>

\* setAnnotations(raw)
StoreSetAnnotations(raw) ==
    /\ nextUuid + NumDrawn(raw) <= MaxFresh
    /\ annotations' = SetAnnotationsResult(raw, nextUuid)
    /\ nextUuid' = nextUuid + NumDrawn(raw)
    /\ isDirty' = FALSE
    /\ durable' = annotations'
    /\ UNCHANGED <<selectedAnnotation, isSaving, lastSaved, timerVars, quiet, fired, bursting>>

\* addAnnotation(annotation)
StoreAddAnnotation(annotation) ==
    LET newAnnotation == Merge(annotation, [id |-> Uuid(nextUuid + 1)])
        insertIndex == InsertIndex(annotations, newAnnotation.page_number)
    IN  /\ nextUuid < MaxFresh
        /\ Len(annotations) < MaxLen
        /\ nextUuid' = nextUuid + 1
        /\ annotations' = Splice(annotations, insertIndex, newAnnotation)
        /\ isDirty' = TRUE
        /\ ScheduleAutoSave
        /\ Touched
        /\ UNCHANGED <<selectedAnnotation, isSaving, lastSaved, durable>>

\* as StoreUpdateAnnotation, but an id that is not in the collection still
\* marks the store dirty and schedules the autosave
StoreUpdateAnnotationAlwaysDirty(id, updates) ==
    LET index == FindIndex(annotations, id)
    IN  /\ annotations' = IF index # 0 THEN UpdatedAt(annotations, index, updates)
                          ELSE annotations
        /\ isDirty' = TRUE
        /\ ScheduleAutoSave
        /\ Touched
        /\ UNCHANGED <<selectedAnnotation, isSaving, lastSaved, nextUuid, durable>>

\* updateAnnotation(id, updates, skipRender): nothing happens for an id that
\* is not in the collection
StoreUpdateAnnotation(id, updates) ==
    LET index == FindIndex(annotations, id)
    IN  IF index # 0
        THEN /\ annotations' = UpdatedAt(annotations, index, updates)
             /\ isDirty' = TRUE
             /\ ScheduleAutoSave
             /\ Touched
             /\ UNCHANGED <<selectedAnnotation, isSaving, lastSaved, nextUuid, durable>>
        ELSE UNCHANGED <<storeVars, timerVars, nextUuid, durable, quiet, fired, bursting>>

\* deleteAnnotation(id)
StoreDeleteAnnotation(id) ==
    /\ annotations' = Without(annotations, id)
    /\ selectedAnnotation' =
          IF selectedAnnotation # <<>> /\ selectedAnnotation[1].id = id
          THEN <<>> ELSE selectedAnnotation
    /\ isDirty' = TRUE
    /\ ScheduleAutoSave
    /\ Touched
    /\ UNCHANGED <<isSaving, lastSaved, nextUuid, durable>>

\* reorderAnnotations(newIds)
StoreReorderAnnotations(newIds) ==
    IF ReorderRejected(annotations, newIds)
    THEN UNCHANGED <<storeVars, timerVars, nextUuid, durable, quiet, fired, bursting>>
    ELSE /\ annotations' = Reordered(annotations, newIds)
         /\ isDirty' = TRUE
         /\ ScheduleAutoSave
         /\ Touched
         /\ UNCHANGED <<selectedAnnotation, isSaving, lastSaved, nextUuid, durable>>

\* (mutant) saveAnnotations without the isSaving half of its guard
StoreSaveBeginIgnoringFlight(caller, filename) ==
    IF ~isDirty
    THEN UNCHANGED <<storeVars, savesInFlight>>
    ELSE /\ isSaving' = TRUE
         /\ savesInFlight' = Append(savesInFlight,
                [caller |-> caller, file |-> filename, data |-> annotations])
         /\ UNCHANGED <<annotations, selectedAnnotation, isDirty, lastSaved>>

\* saveAnnotations(filename) up to its await: the guard, the flag, and the
\* gateway call, which serializes the collection as it is now
\* (ApiService.saveAnnotations: JSON.stringify(request))
StoreSaveBegin(caller, filename) ==
    IF ~isDirty \/ isSaving
    THEN UNCHANGED <<storeVars, savesInFlight>>
    ELSE /\ isSaving' = TRUE
         /\ savesInFlight' = Append(savesInFlight,
                [caller |-> caller, file |-> filename, data |-> annotations])
         /\ UNCHANGED <<annotations, selectedAnnotation, isDirty, lastSaved>>

\* saveAnnotations after the await resolved: the try block's tail, then finally
StoreSaveResolved ==
    /\ isDirty' = FALSE
    /\ lastSaved' = lastSaved + 1
    /\ isSaving' = FALSE
    /\ UNCHANGED <<annotations, selectedAnnotation>>

\* (mutant) saveAnnotations without its finally block: a failed save leaves
\* isSaving set
StoreSaveRejectedNoFinally ==
    UNCHANGED <<annotations, selectedAnnotation, isDirty, isSaving, lastSaved>>

\* saveAnnotations after the await rejected: catch logs, then finally
StoreSaveRejected ==
    /\ isSaving' = FALSE
    /\ UNCHANGED <<annotations, selectedAnnotation, isDirty, lastSaved>>

\* how the promise of saveAnnotations settles: its catch block rethrows
StoreSaveOutcome(gatewayOk) == IF gatewayOk THEN "resolved" ELSE "rejected"

----------------------------------------------------------------------------
(* The store's operations, called by the canvas controller, the reading-   *)
(* order panel and the App                                                  *)

SetAnnotations(raw) ==
    /\ StoreSetAnnotations(raw)
    /\ Did("setAnnotations", raw, TRUE, "ok")
    /\ UNCHANGED <<viewerVars, textVars, syncs, appVars, netVars>>

AddAnnotation(annotation) ==
    /\ StoreAddAnnotation(annotation)
    /\ Did("addAnnotation", annotation, TRUE, "ok")
    /\ UNCHANGED <<viewerVars, textVars, syncs, appVars, netVars>>

\* as UpdateAnnotation, but notify() is called whether the id was found or not
UpdateAnnotationAlwaysNotifies(id, updates, skipRender) ==
    /\ StoreUpdateAnnotation(id, updates)
    /\ Did("updateAnnotation", <<id, updates>>, ~skipRender, "ok")
    /\ UNCHANGED <<viewerVars, textVars, syncs, appVars, netVars>>

UpdateAnnotation(id, updates, skipRender) ==
    /\ StoreUpdateAnnotation(id, updates)
    /\ Did("updateAnnotation", <<id, updates>>,
           FindIndex(annotations, id) # 0 /\ ~skipRender, "ok")
    /\ UNCHANGED <<viewerVars, textVars, syncs, appVars, netVars>>

DeleteAnnotation(id) ==
    /\ StoreDeleteAnnotation(id)
    /\ Did("deleteAnnotation", id, TRUE, "ok")
    /\ UNCHANGED <<viewerVars, textVars, syncs, appVars, netVars>>

\* selectAnnotation(annotation | null)
SelectAnnotation(sel) ==
    /\ selectedAnnotation' = sel
    /\ annotations' = annotations
    /\ Did("selectAnnotation", sel, TRUE, "ok")
    /\ UNCHANGED <<viewerVars, textVars, syncs, isDirty, isSaving, lastSaved, timerVars, nextUuid,
                   appVars, netVars, durable, quiet, fired, bursting>>

ReorderAnnotations(newIds) ==
    /\ StoreReorderAnnotations(newIds)
    /\ Did("reorderAnnotations", newIds, ~ReorderRejected(annotations, newIds), "ok")
    /\ UNCHANGED <<viewerVars, textVars, syncs, appVars, netVars>>

\* saveAnnotations(filename), called on the store directly
SaveAnnotations(filename) ==
    /\ StoreSaveBegin("api", filename)
    /\ Did("saveAnnotations", filename, FALSE, "called")
    /\ UNCHANGED <<viewerVars, textVars, syncs, timerVars, nextUuid, appVars, loadsInFlight, durable, quiet, fired, bursting>>

----------------------------------------------------------------------------
(* Listeners *)

\* subscribe(listener): the listener is pushed; `once` says that it calls the
\* function subscribe returned when it is notified
Subscribe(l, once) ==
    /\ listeners' = Append(listeners, [id |-> l, once |-> once])
    /\ Ran("subscribe", l, FALSE, "ok")
    /\ UNCHANGED <<viewerVars, rendered, storeVars, timerVars, nextUuid, appVars, netVars, textVars, syncs,
                   durable, quiet, fired, bursting, calls>>

\* the function subscribe returned, called outside a notification
Unsubscribe(l) ==
    /\ listeners' = Unsubscribed(listeners, l)
    /\ Ran("unsubscribe", l.id, FALSE, "ok")
    /\ UNCHANGED <<viewerVars, rendered, storeVars, timerVars, nextUuid, appVars, netVars, textVars, syncs,
                   durable, quiet, fired, bursting, calls>>

----------------------------------------------------------------------------
(* Time and the autosave timer *)

Min(a, b) == IF a < b THEN a ELSE b

\* time passes by dt, no further than to the next timeout that is due
Tick(dt) ==
    /\ dt > 0
    /\ \A i \in 1..Len(saveTimers) : saveTimers[i] >= dt
    /\ \A i \in 1..Len(textTimers) : textTimers[i].left >= dt
    /\ saveTimers' = [i \in 1..Len(saveTimers) |-> saveTimers[i] - dt]
    /\ textTimers' = [i \in 1..Len(textTimers) |->
                         [textTimers[i] EXCEPT !.left = @ - dt]]
    /\ quiet' = Min(quiet + dt, AutoSaveDelay)
    /\ typed' = [id \in DOMAIN typed |->
                    [typed[id] EXCEPT !.quiet = Min(@ + dt, TextDelay)]]
    /\ Did("tick", dt, FALSE, "ok")
    /\ UNCHANGED <<viewerVars, textUpdateTimeouts, syncs, storeVars, saveTimeout, nextUuid, appVars, netVars, durable, fired, bursting>>

\* the i-th autosave timeout runs: it dispatches autoSaveRequested, and the
\* App's listener saves when a file is selected and the store is dirty
AutoSaveFire(i) ==
    /\ i \in 1..Len(saveTimers)
    /\ saveTimers[i] = 0
    /\ saveTimers' = RemoveAt(saveTimers, i)
    /\ saveTimeout' = IF saveTimeout = "pending" /\ i = Len(saveTimers)
                      THEN "fired" ELSE saveTimeout
    /\ IF currentJson # "" /\ isDirty
       THEN StoreSaveBegin("auto", currentJson)
       ELSE UNCHANGED <<storeVars, savesInFlight>>
    /\ fired' = fired + 1
    /\ Did("autoSaveRequested", <<>>, FALSE, "ok")
    /\ UNCHANGED <<viewerVars, textVars, syncs, nextUuid, appVars, loadsInFlight, durable, quiet, bursting>>

----------------------------------------------------------------------------
(* The text debounce: one timeout per annotation id *)

\* the timeout whose handle the map holds for id: the newest one set for it
LastTimerOf(ts, id) ==
    IF \E i \in 1..Len(ts) : ts[i].id = id
    THEN CHOOSE i \in 1..Len(ts) :
            ts[i].id = id /\ \A j \in (i + 1)..Len(ts) : ts[j].id # id
    ELSE 0

\* clearTimeout(this.textUpdateTimeouts.get(id))
ClearedTextTimeout(ts, id) ==
    IF LastTimerOf(ts, id) # 0 THEN RemoveAt(ts, LastTimerOf(ts, id)) ELSE ts

\* history: the text edit of id that was made last; burst: it was debounced
\* within the window of a debounced edit before it
Typing(id, text, flushed) ==
    typed' = [x \in DOMAIN typed \cup {id} |->
                 IF x = id
                 THEN [text |-> text, quiet |-> IF flushed THEN TextDelay ELSE 0,
                       runs |-> 0, flushed |-> flushed,
                       burst |-> ~flushed /\ id \in DOMAIN typed
                                 /\ ~typed[id].flushed /\ typed[id].quiet < TextDelay]
                 ELSE typed[x]]

\* as DebounceTextUpdate, but the pending timeout of the id is not cleared
DebounceTextUpdateNoClear(id, text) ==
    /\ textTimers' = Append(textTimers, [id |-> id, text |-> text, left |-> TextDelay])
    /\ textUpdateTimeouts' = textUpdateTimeouts \cup {id}
    /\ Typing(id, text, FALSE)
    /\ Did("debounceTextUpdate", <<id, [text |-> text]>>, FALSE, "ok")
    /\ UNCHANGED <<viewerVars, storeVars, timerVars, nextUuid, appVars, netVars, syncs,
                   durable, quiet, fired, bursting>>

\* debounceTextUpdate(id, text)
DebounceTextUpdate(id, text) ==
    /\ textTimers' =
          Append(IF id \in textUpdateTimeouts
                 THEN ClearedTextTimeout(textTimers, id) ELSE textTimers,
                 [id |-> id, text |-> text, left |-> TextDelay])
    /\ textUpdateTimeouts' = textUpdateTimeouts \cup {id}
    /\ Typing(id, text, FALSE)
    /\ Did("debounceTextUpdate", <<id, [text |-> text]>>, FALSE, "ok")
    /\ UNCHANGED <<viewerVars, storeVars, timerVars, nextUuid, appVars, netVars, syncs,
                   durable, quiet, fired, bursting>>

\* the i-th text timeout runs: updateAnnotation(id, { text }, true), then the
\* map entry of the id is deleted
TextTimeoutFire(i) ==
    /\ i \in 1..Len(textTimers)
    /\ textTimers[i].left = 0
    /\ StoreUpdateAnnotation(textTimers[i].id, [text |-> textTimers[i].text])
    /\ textTimers' = RemoveAt(textTimers, i)
    /\ textUpdateTimeouts' = textUpdateTimeouts \ {textTimers[i].id}
    /\ typed' = [typed EXCEPT ![textTimers[i].id].runs = @ + 1]
    /\ Did("textUpdateTimeout", <<textTimers[i].id, [text |-> textTimers[i].text]>>,
           FALSE, "ok")
    /\ UNCHANGED <<viewerVars, appVars, netVars, syncs>>

\* as FlushTextUpdate, but the pending timeout of the id is left to run
FlushTextUpdateNoClear(id, text) ==
    /\ StoreUpdateAnnotation(id, [text |-> text])
    /\ Typing(id, text, TRUE)
    /\ Did("flushTextUpdate", <<id, [text |-> text]>>, FALSE,
           IF id \in textUpdateTimeouts THEN "cleared" ELSE "ok")
    /\ UNCHANGED <<viewerVars, textUpdateTimeouts, textTimers, appVars, netVars, syncs>>

\* flushTextUpdate(id, text)
FlushTextUpdate(id, text) ==
    /\ IF id \in textUpdateTimeouts
       THEN /\ textTimers' = ClearedTextTimeout(textTimers, id)
            /\ textUpdateTimeouts' = textUpdateTimeouts \ {id}
       ELSE UNCHANGED <<textUpdateTimeouts, textTimers>>
    /\ StoreUpdateAnnotation(id, [text |-> text])
    /\ Typing(id, text, TRUE)
    /\ Did("flushTextUpdate", <<id, [text |-> text]>>, FALSE,
           IF id \in textUpdateTimeouts THEN "cleared" ELSE "ok")
    /\ UNCHANGED <<viewerVars, appVars, netVars, syncs>>

----------------------------------------------------------------------------
(* App: file selection, manual save, sync *)

\* handleJsonSelected(filename) up to its await
HandleJsonSelected(filename) ==
    /\ Len(loadsInFlight) < MaxLoads
    /\ currentJson' = filename
    /\ loadsInFlight' = Append(loadsInFlight, filename)
    /\ Did("handleJsonSelected", filename, FALSE, "ok")
    /\ UNCHANGED <<viewerVars, textVars, syncs, storeVars, timerVars, nextUuid, isSyncing, syncPc, savesInFlight,
                   durable, quiet, fired, bursting>>

\* the i-th load resolves with the array `raw`: loadAnnotations stores it
LoadResolved(i, raw) ==
    /\ i \in 1..Len(loadsInFlight)
    /\ loadsInFlight' = RemoveAt(loadsInFlight, i)
    /\ StoreSetAnnotations(raw)
    /\ Did("loadAnnotations", [gatewayOk |-> TRUE, data |-> raw], TRUE, "resolved")
    /\ UNCHANGED <<viewerVars, textVars, syncs, appVars, savesInFlight>>

\* the i-th load rejects: loadAnnotations catches and stores the empty array
LoadRejected(i) ==
    /\ i \in 1..Len(loadsInFlight)
    /\ loadsInFlight' = RemoveAt(loadsInFlight, i)
    /\ StoreSetAnnotations(<<>>)
    /\ Did("loadAnnotations", [gatewayOk |-> FALSE, data |-> <<>>], TRUE, "resolved")
    /\ UNCHANGED <<viewerVars, textVars, syncs, appVars, savesInFlight>>

\* App.saveAnnotations, from Ctrl+S
CtrlS ==
    /\ IF currentJson = "" \/ ~isDirty
       THEN UNCHANGED <<storeVars, savesInFlight>>
       ELSE StoreSaveBegin("manual", currentJson)
    /\ Did("App.saveAnnotations", <<>>, FALSE, "called")
    /\ UNCHANGED <<viewerVars, textVars, syncs, timerVars, nextUuid, appVars, loadsInFlight, durable, quiet, fired, bursting>>

\* as SyncClick, but a sync in flight does not block the next
SyncClickIgnoringSyncing ==
    /\ IF currentJson = "" \/ isSaving
       THEN UNCHANGED <<storeVars, isSyncing, syncPc, savesInFlight, syncs>>
       ELSE /\ isSyncing' = TRUE
            /\ syncs' = syncs + 1
            /\ IF currentJson = "" \/ ~isDirty
               THEN /\ syncPc' = "uploading"
                    /\ UNCHANGED <<storeVars, savesInFlight>>
               ELSE /\ StoreSaveBegin("sync", currentJson)
                    /\ syncPc' = IF isSaving' THEN "saving" ELSE "uploading"
    /\ Did("syncAnnotations", <<>>, FALSE, "called")
    /\ UNCHANGED <<viewerVars, textVars, timerVars, nextUuid, currentJson, loadsInFlight, durable, quiet, fired,
                   bursting>>

\* App.syncAnnotations up to its first gateway call: the local save when
\* there is something to save, else the upload at once
SyncClick ==
    /\ IF currentJson = "" \/ isSyncing \/ isSaving
       THEN UNCHANGED <<storeVars, isSyncing, syncPc, savesInFlight, syncs>>
       ELSE /\ isSyncing' = TRUE
            /\ syncs' = syncs + 1
            /\ IF currentJson = "" \/ ~isDirty
               THEN /\ syncPc' = "uploading"
                    /\ UNCHANGED <<storeVars, savesInFlight>>
               ELSE /\ StoreSaveBegin("sync", currentJson)
                    /\ syncPc' = IF isSaving' THEN "saving" ELSE "uploading"
    /\ Did("syncAnnotations", <<>>, FALSE, "called")
    /\ UNCHANGED <<viewerVars, textVars, timerVars, nextUuid, currentJson, loadsInFlight, durable, quiet, fired,
                   bursting>>

\* the i-th gateway save resolves; a sync that awaited it goes on to syncFile
SaveResolved(i) ==
    /\ i \in 1..Len(savesInFlight)
    /\ lastSaved < MaxSaves
    /\ savesInFlight' = RemoveAt(savesInFlight, i)
    /\ StoreSaveResolved
    /\ durable' = savesInFlight[i].data
    /\ syncPc' = IF savesInFlight[i].caller = "sync" THEN "uploading" ELSE syncPc
    /\ Did("saveAnnotations.settled",
           [caller |-> savesInFlight[i].caller, gatewayOk |-> TRUE],
           FALSE, StoreSaveOutcome(TRUE))
    /\ UNCHANGED <<viewerVars, textVars, syncs, timerVars, nextUuid, currentJson, isSyncing, loadsInFlight,
                   quiet, fired, bursting>>

\* the i-th gateway save rejects: the store's promise rejects to its caller.
\* App.saveAnnotations catches (alert), so a sync that awaited it goes on
SaveRejected(i) ==
    /\ i \in 1..Len(savesInFlight)
    /\ savesInFlight' = RemoveAt(savesInFlight, i)
    /\ StoreSaveRejected
    /\ syncPc' = IF savesInFlight[i].caller = "sync" THEN "uploading" ELSE syncPc
    /\ Did("saveAnnotations.settled",
           [caller |-> savesInFlight[i].caller, gatewayOk |-> FALSE],
           FALSE, StoreSaveOutcome(FALSE))
    /\ UNCHANGED <<viewerVars, textVars, syncs, timerVars, nextUuid, currentJson, isSyncing, loadsInFlight,
                   durable, quiet, fired, bursting>>

\* apiService.syncFile settles, either way: finally { isSyncing = false }
UploadSettled(ok) ==
    /\ syncPc = "uploading"
    /\ syncPc' = "idle"
    /\ isSyncing' = FALSE
    /\ syncs' = syncs - 1
    /\ Did("syncFile.settled", <<>>, FALSE, IF ok THEN "resolved" ELSE "rejected")
    /\ UNCHANGED <<viewerVars, textVars, storeVars, timerVars, nextUuid, currentJson, netVars,
                   durable, quiet, fired, bursting>>

----------------------------------------------------------------------------
(* PdfViewer: the gestures. p is the pointer of the event relative to the   *)
(* overlay: [x |-> event.clientX - rect.left, y |-> event.clientY - rect.top] *)

\* handleMouseDown, the target being the overlay: startCreatingAnnotation
MouseDown(p) ==
    /\ rendered.selectionBoxes < MaxPreviews
    /\ startPoint' = <<p>>
    /\ isCreatingAnnotation' = TRUE
    /\ selectionBox' = <<[left |-> p.x, top |-> p.y, width |-> 0, height |-> 0]>>
    /\ rendered' = [rendered EXCEPT !.selectionBoxes = @ + 1]
    /\ Ran("mousedown", p, FALSE, "ok")
    /\ UNCHANGED <<storeVars, timerVars, nextUuid, appVars, netVars, textVars, listeners, syncs,
                   pageVars, selectedBox, isDragging, isResizing, dragOffset,
                   activeAnnotation, resizeStartBounds, oppositeCorner, resizeOverlay,
                   extractions, drawn, durable, quiet, fired, bursting, calls>>

\* startDragging(event, annotation), box being the style of event.currentTarget
StartDragging(annotation, box, p) ==
    LET scaleX == Div(canvas.width, annotation.page_width)
        scaleY == Div(canvas.height, annotation.page_height)
    IN  /\ isDragging' = TRUE
        /\ activeAnnotation' = <<annotation>>
        /\ selectedBox' = <<box>>
        /\ dragOffset' = [x |-> Sub(p.x, Mul(annotation.left, scaleX)),
                          y |-> Sub(p.y, Mul(annotation.top, scaleY))]
        /\ UNCHANGED <<isResizing, resizeStartBounds, oppositeCorner, resizeOverlay>>

\* startResizing(event, annotation, handle), with createResizeOverlay; box is
\* the style of the parent of the handle
StartResizing(annotation, box, handle) ==
    /\ isResizing' = TRUE
    /\ activeAnnotation' = <<annotation>>
    /\ selectedBox' = <<box>>
    /\ resizeStartBounds' = <<box>>
    /\ oppositeCorner' = <<[x |-> IF IncludesE(handle) THEN box.left
                                  ELSE Add(box.left, box.width),
                            y |-> IF IncludesS(handle) THEN box.top
                                  ELSE Add(box.top, box.height)]>>
    /\ resizeOverlay' = <<box>>
    /\ UNCHANGED <<isDragging, dragOffset>>

\* handleAnnotationMouseDown on the i-th box of the overlay: on one of its
\* handles, or ("box") anywhere else on it. The annotation is the one the box
\* was made for; selectAnnotation notifies, and the viewer renders
AnnotationMouseDown(i, handle, p) ==
    /\ i \in 1..Len(rendered.boxes)
    /\ LET annotation == rendered.boxes[i]
           box == CreateAnnotationElement(annotation, rendered)
       IN  /\ IF handle \in Handles
              THEN /\ rendered.resizeOverlays < MaxPreviews
                   /\ StartResizing(annotation, box, handle)
              ELSE StartDragging(annotation, box, p)
           /\ selectedAnnotation' = <<annotation>>
           /\ rendered' = RenderAnnotations(
                              [rendered EXCEPT !.resizeOverlays =
                                                    IF handle \in Handles THEN @ + 1 ELSE @],
                              annotations, currentPage, canvas)
           /\ Ran("annotationMouseDown", <<annotation.id, handle, p>>, TRUE, "ok")
    /\ listeners' = Notify(listeners).listeners
    /\ calls' = Notify(listeners).calls
    /\ UNCHANGED <<annotations, isDirty, isSaving, lastSaved, timerVars, nextUuid, appVars,
                   netVars, textVars, syncs, pageVars, isCreatingAnnotation, startPoint,
                   selectionBox, extractions, drawn, durable, quiet, fired, bursting>>

\* (mutant) updateDraggingAnnotation without Math.max(0, .)
UpdateDraggingAnnotationUnclamped(p) ==
    /\ selectedBox' = <<[selectedBox[1] EXCEPT !.left = Sub(p.x, dragOffset.x),
                                               !.top = Sub(p.y, dragOffset.y)]>>
    /\ UNCHANGED <<selectionBox, resizeOverlay>>

\* updateDraggingAnnotation
UpdateDraggingAnnotation(p) ==
    LET x == Sub(p.x, dragOffset.x)
        y == Sub(p.y, dragOffset.y)
    IN  /\ selectedBox' = <<[selectedBox[1] EXCEPT !.left = MathMax(0, x), !.top = MathMax(0, y)]>>
        /\ UNCHANGED <<selectionBox, resizeOverlay>>

\* (mutant) updateResizingAnnotation without its clamp to the overlay
ResizedRectUnclamped(corner, p, surface) ==
    [left   |-> Min(corner.x, p.x),
     top    |-> Min(corner.y, p.y),
     width  |-> Sub(MathMax(corner.x, p.x), Min(corner.x, p.x)),
     height |-> Sub(MathMax(corner.y, p.y), Min(corner.y, p.y))]

\* updateResizingAnnotation: the rectangle between the anchor and the pointer,
\* kept within the overlay
ResizedRect(corner, p, surface) ==
    LET newRect == [left |-> Min(corner.x, p.x), top |-> Min(corner.y, p.y),
                    right |-> MathMax(corner.x, p.x), bottom |-> MathMax(corner.y, p.y)]
        width  == Sub(newRect.right, newRect.left)
        height == Sub(newRect.bottom, newRect.top)
        finalLeft == MathMax(0, Min(newRect.left, Sub(surface.offsetWidth, width)))
        finalTop  == MathMax(0, Min(newRect.top, Sub(surface.offsetHeight, height)))
    IN  [left   |-> finalLeft,
         top    |-> finalTop,
         width  |-> Min(width, Sub(surface.offsetWidth, finalLeft)),
         height |-> Min(height, Sub(surface.offsetHeight, finalTop))]

\* updateResizingAnnotation: whether the pointer is refused (the rectangle
\* between the anchor and the pointer is below the minimum)
TooSmall(corner, p) ==
    \/ Sub(MathMax(corner.x, p.x), Min(corner.x, p.x)) < Px(MinSize)
    \/ Sub(MathMax(corner.y, p.y), Min(corner.y, p.y)) < Px(MinSize)

UpdateResizingAnnotation(p) ==
    IF oppositeCorner = <<>> \/ resizeOverlay = <<>> \/ TooSmall(oppositeCorner[1], p)
    THEN UNCHANGED <<selectionBox, selectedBox, resizeOverlay>>
    ELSE /\ resizeOverlay' = <<ResizedRect(oppositeCorner[1], p, overlay)>>
         /\ selectedBox' = <<ResizedRect(oppositeCorner[1], p, overlay)>>
         /\ UNCHANGED selectionBox

\* handleMouseMove
MouseMove(p) ==
    /\ IF isCreatingAnnotation /\ startPoint # <<>> /\ selectionBox # <<>>
       THEN /\ selectionBox' = <<[left   |-> Min(startPoint[1].x, p.x),
                                  top    |-> Min(startPoint[1].y, p.y),
                                  width  |-> Abs(Sub(p.x, startPoint[1].x)),
                                  height |-> Abs(Sub(p.y, startPoint[1].y))]>>
            /\ UNCHANGED <<selectedBox, resizeOverlay>>
       ELSE IF isDragging /\ selectedBox # <<>> THEN UpdateDraggingAnnotation(p)
       ELSE IF isResizing /\ selectedBox # <<>> THEN UpdateResizingAnnotation(p)
       ELSE UNCHANGED <<selectionBox, selectedBox, resizeOverlay>>
    /\ Ran("mousemove", p, FALSE, "ok")
    /\ UNCHANGED <<storeVars, timerVars, nextUuid, appVars, netVars, textVars, listeners, syncs,
                   pageVars, rendered, isCreatingAnnotation, startPoint, isDragging,
                   isResizing, dragOffset, activeAnnotation, resizeStartBounds,
                   oppositeCorner, extractions, drawn, durable, quiet, fired, bursting,
                   calls>>

\* handleMouseUp runs its store calls one after the other. Its progress is a
\* record: the collection (anns), the ids drawn (uuid), the children of the
\* overlay, the two preview references, how many times the store notified,
\* and whether removeChild threw (the element was not a child of the overlay)
Progress ==
    [anns |-> annotations, uuid |-> nextUuid, children |-> rendered,
     selectionBox |-> selectionBox, resizeOverlay |-> resizeOverlay,
     notified |-> 0, threw |-> FALSE]

\* annotationStore.addAnnotation(annotation) within a handler of the viewer
AddAnnotationIn(st, annotation) ==
    LET newAnnotation == Merge(annotation, [id |-> Uuid(st.uuid + 1)])
        anns == Splice(st.anns, InsertIndex(st.anns, newAnnotation.page_number), newAnnotation)
    IN  [st EXCEPT !.anns = anns, !.uuid = @ + 1, !.notified = @ + 1,
                   !.children = RenderAnnotations(@, anns, currentPage, canvas)]

\* annotationStore.updateAnnotation(id, updates) within a handler of the viewer
UpdateAnnotationIn(st, id, updates) ==
    LET index == FindIndex(st.anns, id)
        anns == UpdatedAt(st.anns, index, updates)
    IN  IF index = 0 THEN st
        ELSE [st EXCEPT !.anns = anns, !.notified = @ + 1,
                        !.children = RenderAnnotations(@, anns, currentPage, canvas)]

\* finishCreatingAnnotation: whether the drawn rectangle becomes an annotation
DrawnIsKept(width, height) == width > Px(MinDrawn) /\ height > Px(MinDrawn)

\* finishCreatingAnnotation
FinishCreatingAnnotation(st, p) ==
    LET left   == Min(startPoint[1].x, p.x)
        top    == Min(startPoint[1].y, p.y)
        width  == Abs(Sub(p.x, startPoint[1].x))
        height == Abs(Sub(p.y, startPoint[1].y))
        removed == IF st.selectionBox = <<>> THEN st
                   ELSE [st EXCEPT !.selectionBox = <<>>, !.children.selectionBoxes = @ - 1]
    IN  IF st.selectionBox # <<>> /\ st.children.selectionBoxes = 0
        THEN [st EXCEPT !.threw = TRUE]
        ELSE IF DrawnIsKept(width, height)
        THEN AddAnnotationIn(removed,
                 [left |-> left, top |-> top, width |-> width, height |-> height,
                  page_number |-> currentPage, page_width |-> canvas.width,
                  page_height |-> canvas.height, text |-> "", type |-> "Text"])
        ELSE removed

\* handleMouseUp: what the commit of a drag passes to updateAnnotation
DragPatch(box, scaleX, scaleY) ==
    [left |-> Div(box.left, scaleX), top |-> Div(box.top, scaleY)]

\* handleMouseUp: the commit of a drag
DragCommit(st) ==
    LET scaleX == Div(canvas.width, activeAnnotation[1].page_width)
        scaleY == Div(canvas.height, activeAnnotation[1].page_height)
    IN  IF isDragging /\ selectedBox # <<>> /\ activeAnnotation # <<>>
        THEN UpdateAnnotationIn(st, activeAnnotation[1].id,
                                DragPatch(selectedBox[1], scaleX, scaleY))
        ELSE st

\* handleMouseUp: what the commit of a resize passes to updateAnnotation
ResizePatch(final, scaleX, scaleY) ==
    [left |-> Div(final.left, scaleX), top |-> Div(final.top, scaleY),
     width |-> Div(final.width, scaleX), height |-> Div(final.height, scaleY)]

\* handleMouseUp: the commit of a resize
ResizeCommit(st) ==
    LET final == st.resizeOverlay[1]
        scaleX == Div(canvas.width, activeAnnotation[1].page_width)
        scaleY == Div(canvas.height, activeAnnotation[1].page_height)
        removed == [st EXCEPT !.resizeOverlay = <<>>, !.children.resizeOverlays = @ - 1]
    IN  IF ~(isResizing /\ st.resizeOverlay # <<>> /\ activeAnnotation # <<>>) THEN st
        ELSE IF st.children.resizeOverlays = 0 THEN [st EXCEPT !.threw = TRUE]
        ELSE IF final.width <= 0 \/ final.height <= 0 THEN removed
        ELSE UpdateAnnotationIn(removed, activeAnnotation[1].id,
                                ResizePatch(final, scaleX, scaleY))

\* handleMouseUp: the removal of a resize overlay that is still referenced,
\* after the flags are reset
ResetOverlay(st) ==
    IF st.resizeOverlay = <<>> THEN st
    ELSE IF st.children.resizeOverlays = 0 THEN [st EXCEPT !.threw = TRUE]
    ELSE [st EXCEPT !.resizeOverlay = <<>>, !.children.resizeOverlays = @ - 1]

\* handleMouseUp
MouseUp(p) ==
    \E created \in {IF isCreatingAnnotation /\ startPoint # <<>>
                     THEN FinishCreatingAnnotation(Progress, p) ELSE Progress} :
    \E dragged \in {IF created.threw THEN created ELSE DragCommit(created)} :
    \E resized \in {IF dragged.threw THEN dragged ELSE ResizeCommit(dragged)} :
    \E st \in {IF resized.threw THEN resized ELSE ResetOverlay(resized)} :
        /\ st.uuid <= MaxFresh
        /\ Len(st.anns) <= MaxLen
        /\ annotations' = st.anns
        /\ nextUuid' = st.uuid
        /\ rendered' = st.children
        /\ selectionBox' = st.selectionBox
        /\ resizeOverlay' = st.resizeOverlay
        /\ IF resized.threw
           THEN UNCHANGED <<isCreatingAnnotation, isDragging, isResizing, activeAnnotation,
                            selectedBox, resizeStartBounds, oppositeCorner>>
           ELSE /\ isCreatingAnnotation' = FALSE
                /\ isDragging' = FALSE
                /\ isResizing' = FALSE
                /\ activeAnnotation' = <<>>
                /\ selectedBox' = <<>>
                /\ resizeStartBounds' = <<>>
                /\ oppositeCorner' = <<>>
        /\ IF st.notified > 0
           THEN /\ isDirty' = TRUE
                /\ ScheduleAutoSave
                /\ quiet' = 0
                /\ fired' = 0
                /\ bursting' = (quiet < AutoSaveDelay \/ st.notified > 1)
           ELSE UNCHANGED <<isDirty, timerVars, quiet, fired, bursting>>
        /\ listeners' = NotifyTimes(listeners, calls, st.notified).listeners
        /\ calls' = NotifyTimes(listeners, calls, st.notified).calls
        /\ Ran("mouseup",
               [p |-> p, creating |-> isCreatingAnnotation, dragging |-> isDragging,
                resizing |-> isResizing, active |-> activeAnnotation,
                preview |-> resizeOverlay],
               st.notified > 0, IF st.threw THEN "threw" ELSE "ok")
        /\ UNCHANGED <<selectedAnnotation, isSaving, lastSaved, durable, appVars, netVars,
                       textVars, syncs, pageVars, startPoint, dragOffset, extractions,
                       drawn>>

----------------------------------------------------------------------------
(* PdfViewer: the pages *)

\* the box of the overlay while its style gives it no size: it fills the
\* container, which is as large as the canvas
Laid(ov, cv) ==
    IF ov.styled THEN ov
    ELSE [offsetWidth |-> cv.width, offsetHeight |-> cv.height, styled |-> FALSE]

\* renderPage(pageNumber), up to its await: pdfService.renderPage is called
RenderPage(pageNumber) ==
    /\ Len(pageRenders) < MaxRenders
    /\ currentPage' = pageNumber
    /\ pageRenders' = Append(pageRenders, [page |-> pageNumber, pc |-> "getPage"])
    /\ overlay' = Laid(overlay, canvas)
    /\ Ran("renderPage", pageNumber, FALSE, "called")
    /\ UNCHANGED <<storeVars, timerVars, nextUuid, appVars, netVars, textVars, listeners, syncs,
                   canvas, rendered, gestureVars, durable, quiet, fired, bursting, calls>>

\* pdfService.renderPage: getPage resolved with a page of the size `viewport`;
\* the canvas takes that size, and page.render is called
PageGot(i, viewport) ==
    /\ i \in 1..Len(pageRenders)
    /\ pageRenders[i].pc = "getPage"
    /\ canvas' = [width |-> viewport.width, height |-> viewport.height,
                  page |-> pageRenders[i].page]
    /\ pageRenders' = [pageRenders EXCEPT ![i] =
                          [page |-> @.page, pc |-> "render", width |-> viewport.width,
                           height |-> viewport.height]]
    /\ overlay' = Laid(overlay, canvas')
    /\ Ran("pdfService.renderPage", pageRenders[i].page, FALSE, "sized")
    /\ UNCHANGED <<storeVars, timerVars, nextUuid, appVars, netVars, textVars, listeners, syncs,
                   currentPage, rendered, gestureVars, durable, quiet, fired, bursting,
                   calls>>

\* renderPage after its await: page.render resolved; the overlay takes the
\* size of the page and the annotations are rendered
PageRendered(i) ==
    /\ i \in 1..Len(pageRenders)
    /\ pageRenders[i].pc = "render"
    /\ pageRenders' = RemoveAt(pageRenders, i)
    /\ overlay' = [offsetWidth |-> pageRenders[i].width,
                   offsetHeight |-> pageRenders[i].height, styled |-> TRUE]
    /\ rendered' = RenderAnnotations(rendered, annotations, currentPage, canvas)
    /\ Ran("renderPage", pageRenders[i].page, FALSE, "resolved")
    /\ UNCHANGED <<storeVars, timerVars, nextUuid, appVars, netVars, textVars, listeners, syncs,
                   currentPage, canvas, gestureVars, durable, quiet, fired, bursting, calls>>

\* renderPage after its await: getPage or page.render rejected; the catch
\* logs the error
PageFailed(i) ==
    /\ i \in 1..Len(pageRenders)
    /\ pageRenders' = RemoveAt(pageRenders, i)
    /\ Ran("renderPage", pageRenders[i].page, FALSE, "failed")
    /\ UNCHANGED <<storeVars, timerVars, nextUuid, appVars, netVars, textVars, listeners, syncs,
                   currentPage, canvas, overlay, rendered, gestureVars, durable, quiet, fired,
                   bursting, calls>>

----------------------------------------------------------------------------
(* PdfViewer, the revision that extracts the text under a drawn rectangle:  *)
(* handleMouseUp and finishCreatingAnnotation are async                     *)

\* handleMouseDown, the target being the overlay: startCreatingAnnotation
StartCreatingAnnotation(p) ==
    /\ Len(drawn) < MaxGestures
    /\ rendered.selectionBoxes < MaxPreviews
    /\ startPoint' = <<p>>
    /\ isCreatingAnnotation' = TRUE
    /\ selectionBox' = <<[left |-> p.x, top |-> p.y, width |-> 0, height |-> 0]>>
    /\ rendered' = [rendered EXCEPT !.selectionBoxes = @ + 1]
    /\ drawn' = Append(drawn, 0)
    /\ Ran("mousedown", p, FALSE, "ok")
    /\ UNCHANGED <<storeVars, timerVars, nextUuid, appVars, netVars, textVars, listeners, syncs,
                   pageVars, selectedBox, isDragging, isResizing, dragOffset,
                   activeAnnotation, resizeStartBounds, oppositeCorner, resizeOverlay,
                   extractions, durable, quiet, fired, bursting, calls>>

\* handleMouseUp with finishCreatingAnnotation, up to the await of the text:
\* the selection box is removed, the rectangle is measured and, when it is
\* kept, extractTextFromSelectionScreenRect is called. isCreatingAnnotation is
\* reset after the await, at once when nothing is awaited. An extraction
\* carries the rectangle (the locals of finishCreatingAnnotation) and, as
\* history, its gesture and the page and canvas size at this pointerUp
HandleMouseUp(p) ==
    LET left   == Min(startPoint[1].x, p.x)
        top    == Min(startPoint[1].y, p.y)
        width  == Abs(Sub(p.x, startPoint[1].x))
        height == Abs(Sub(p.y, startPoint[1].y))
    IN  /\ IF isCreatingAnnotation /\ startPoint # <<>>
           THEN /\ selectionBox' = <<>>
                /\ rendered' = [rendered EXCEPT !.selectionBoxes =
                                                    IF selectionBox # <<>> THEN @ - 1 ELSE @]
                /\ IF DrawnIsKept(width, height)
                   THEN /\ Len(extractions) < MaxExtractions
                        /\ extractions' = Append(extractions,
                              [left |-> left, top |-> top, width |-> width, height |-> height,
                               gesture |-> Len(drawn), page |-> currentPage,
                               page_width |-> canvas.width, page_height |-> canvas.height])
                        /\ UNCHANGED isCreatingAnnotation
                   ELSE /\ isCreatingAnnotation' = FALSE
                        /\ UNCHANGED extractions
           ELSE /\ isCreatingAnnotation' = FALSE
                /\ UNCHANGED <<selectionBox, rendered, extractions>>
        /\ Ran("mouseup", p, FALSE, "ok")
        /\ UNCHANGED <<storeVars, timerVars, nextUuid, appVars, netVars, textVars, listeners,
                       syncs, pageVars, startPoint, selectedBox, isDragging, isResizing,
                       dragOffset, activeAnnotation, resizeStartBounds, oppositeCorner,
                       resizeOverlay, drawn, durable, quiet, fired, bursting, calls>>

\* finishCreatingAnnotation after its await: the i-th extraction settled with
\* `text` (the empty string when it failed); the annotation is built from the
\* rectangle and from the page and the canvas as they are now, and is added;
\* then handleMouseUp resets isCreatingAnnotation
TextExtracted(i, text) ==
    /\ i \in 1..Len(extractions)
    /\ extractions' = RemoveAt(extractions, i)
    /\ StoreAddAnnotation(
           [left |-> extractions[i].left, top |-> extractions[i].top,
            width |-> extractions[i].width, height |-> extractions[i].height,
            page_number |-> currentPage, page_width |-> canvas.width,
            page_height |-> canvas.height, text |-> text, type |-> "Text"])
    /\ isCreatingAnnotation' = FALSE
    /\ drawn' = [drawn EXCEPT ![extractions[i].gesture] = @ + 1]
    /\ Did("finishCreatingAnnotation", [extraction |-> extractions[i], text |-> text],
           TRUE, "ok")
    /\ UNCHANGED <<appVars, netVars, textVars, syncs, pageVars, startPoint, selectedBox,
                   isDragging, isResizing, dragOffset, selectionBox, activeAnnotation,
                   resizeStartBounds, oppositeCorner, resizeOverlay>>

----------------------------------------------------------------------------
(* Inputs *)

\* what the canvas controller passes to addAnnotation
Drawn(page, w, h) ==
    [left |-> 0, top |-> 0, width |-> w, height |-> h, page_number |-> page,
     page_width |-> 600, page_height |-> 800, text |-> "", type |-> "Text"]

\* an element of a loaded file, with the id the file carries
Sized(id, page, w, h) ==
    [id |-> id, left |-> 0, top |-> 0, width |-> w, height |-> h, page_number |-> page,
     page_width |-> 600, page_height |-> 800, text |-> "", type |-> "Text"]

SeqsUpTo(S, n) == UNION {[1..k -> S] : k \in 0..n}

\* the arrays of up to n elements a file may hold: its elements carry the ids
\* given (id 0: the element has no id), in any order and any number of times
FileArrays(ids, pages, extents, n) ==
    SeqsUpTo({IF id = 0 THEN Drawn(page, w, h) ELSE Sized(id, page, w, h) :
                 id \in ids, page \in pages, w \in extents, h \in extents}, n)

IdsIn(anns) == Range(IdsOf(anns))

\* the sequences that list each element of S once
Perms(S) ==
    {p \in [1..Cardinality(S) -> S] : \A i, j \in 1..Cardinality(S) : p[i] = p[j] => i = j}

Files == {"a.json"}

----------------------------------------------------------------------------
(* Specification Spec: rearranging one page, the autosave timer, saving,   *)
(* syncing and (re)loading the file. Time passes a debounce window at a    *)
(* time: no handler reads how long a timeout has left.                     *)

\* drawing, deleting and reordering on one page
Rearrange ==
    \/ /\ Len(annotations) < EditMaxLen
       /\ nextUuid < EditMaxFresh
       /\ AddAnnotation(Drawn(1, 20, 20))
    \/ \E id \in IdsIn(annotations) : DeleteAnnotation(id)
    \/ \E newIds \in Perms(IdsIn(annotations)) : ReorderAnnotations(newIds)

\* the four kinds of mutating call
Edit ==
    \/ Rearrange
    \/ \E id \in IdsIn(annotations) : UpdateAnnotation(id, [text |-> "x"], TRUE)

Persist ==
    \/ \E i \in 1..Len(saveTimers) : AutoSaveFire(i)
    \/ CtrlS
    \/ SyncClick
    \/ currentJson # "" /\ SaveAnnotations(currentJson)
    \/ \E i \in 1..Len(savesInFlight) : SaveResolved(i)
    \/ \E i \in 1..Len(savesInFlight) : SaveRejected(i)
    \/ \E ok \in BOOLEAN : UploadSettled(ok)

Switch ==
    \/ \E f \in Files : HandleJsonSelected(f)
    \/ \E i \in 1..Len(loadsInFlight) : LoadResolved(i, <<>>)
    \/ \E i \in 1..Len(loadsInFlight) : LoadRejected(i)

Next == Rearrange \/ Persist \/ Switch \/ Tick(AutoSaveDelay)

Spec == Init /\ [][Next]_vars

----------------------------------------------------------------------------
(* Claims about saving *)

\* the step calls the store's saveAnnotations: directly, from the autosave
\* listener or from App.saveAnnotations (both call it when a file is selected
\* and the store is dirty)
SaveInvoked ==
    \/ last'.op = "saveAnnotations"
    \/ /\ last'.op \in {"autoSaveRequested", "App.saveAnnotations"}
       /\ currentJson # ""
       /\ isDirty

\* C1: a saveAnnotations call made while isDirty is false or isSaving is true
\* issues no gateway save and changes no store field, and at no time is more
\* than one gateway save outstanding.
C1_SaveGuard ==
    /\ [](Len(savesInFlight) <= 1)
    /\ [][(SaveInvoked /\ (~isDirty \/ isSaving))
            => (savesInFlight' = savesInFlight /\ storeVars' = storeVars)]_vars

\* C1 witness: the autosave listener called saveAnnotations while a manual
\* save was in flight, and the one gateway call outstanding is still that one
C1_Witness ==
    /\ last.op = "autoSaveRequested"
    /\ currentJson # ""
    /\ isDirty
    /\ isSaving
    /\ Len(savesInFlight) = 1
    /\ savesInFlight[1].caller = "manual"

\* C2: whenever no save is in flight and the collection differs from what the
\* last replaceAll or successful save made durable, isDirty is true.
C2_DirtyTracksUnsaved ==
    (~isSaving /\ annotations # durable) => isDirty

\* C3: when the gateway save fails, the promise of saveAnnotations rejects,
\* isDirty and lastSaved keep their values, the collection is untouched and
\* isSaving is false again.
C3_FailedSave ==
    [][(last'.op = "saveAnnotations.settled" /\ ~last'.arg.gatewayOk)
         => /\ last'.out = "rejected"
            /\ isDirty' = isDirty
            /\ lastSaved' = lastSaved
            /\ annotations' = annotations
            /\ ~isSaving']_vars

\* C3 witness: a save has failed and the store is dirty and free to save again
C3_Witness ==
    /\ last.op = "saveAnnotations.settled"
    /\ ~last.arg.gatewayOk
    /\ last.out = "rejected"
    /\ isDirty
    /\ ~isSaving
    /\ savesInFlight = <<>>

\* C4: when the autosave timer fires with the store dirty and a file
\* selected, exactly one gateway save carrying the collection as it is now
\* is outstanding afterwards.
C4_FiringSaves ==
    [][(last'.op = "autoSaveRequested" /\ isDirty /\ currentJson # "")
         => Cardinality({i \in 1..Len(savesInFlight') :
                            savesInFlight'[i].data = annotations'}) = 1]_vars

\* the store calls that set isDirty
Mutators ==
    {"addAnnotation", "updateAnnotation", "deleteAnnotation", "reorderAnnotations",
     "textUpdateTimeout", "flushTextUpdate"}

\* C13: a replaceAll leaves the store clean, leaves the autosave timer and
\* the gateway alone, and causes no save later either: only a mutating call
\* makes the store dirty again, and an autosave timer that fires on a clean
\* store, such as one an earlier mutation started, makes no gateway call
C13_ReplaceAllNoSave ==
    [][/\ last'.op \in {"setAnnotations", "loadAnnotations"} =>
             ~isDirty' /\ timerVars' = timerVars /\ savesInFlight' = savesInFlight
       /\ (~isDirty /\ isDirty') => last'.op \in Mutators
       /\ (last'.op = "autoSaveRequested" /\ ~isDirty) =>
             savesInFlight' = savesInFlight /\ isSaving' = isSaving]_vars

\* the timer of a mutation has fired after a replaceAll made the store
\* clean (no save has succeeded), with a file selected, and nothing was saved
C13_Witness ==
    /\ last.op = "autoSaveRequested"
    /\ currentJson # ""
    /\ fired = 1
    /\ lastSaved = 0
    /\ ~isDirty
    /\ savesInFlight = <<>>
    /\ nextUuid > 0

\* C20: a sync request made while a sync is in flight or while the store is
\* saving starts no save and no upload and changes nothing; at most one sync
\* is in flight; isSyncing is true exactly while one is, and is false again
\* once the upload has settled, resolved or rejected, whether the save
\* before it resolved or rejected
C20_SyncGuard ==
    [][/\ (last'.op = "syncAnnotations" /\ (isSyncing \/ isSaving)) =>
             UNCHANGED <<storeVars, savesInFlight, isSyncing, syncPc, syncs>>
       /\ syncs' <= 1
       /\ isSyncing' = (syncs' = 1)
       /\ isSyncing' = (syncPc' # "idle")
       /\ last'.op = "syncFile.settled" => ~isSyncing']_vars

\* a sync request was made while a sync was uploading: the store is dirty
\* and yet no save was started
C20_Witness ==
    /\ last.op = "syncAnnotations"
    /\ isSyncing
    /\ syncPc = "uploading"
    /\ isDirty
    /\ ~isSaving
    /\ savesInFlight = <<>>

\* C21: when the gateway's load fails, the promise of load(filename) rejects,
\* so that its caller sees the failure
C21_LoadFailureThrown ==
    [][(last'.op = "loadAnnotations" /\ ~last'.arg.gatewayOk) =>
          last'.out = "rejected"]_vars

----------------------------------------------------------------------------
(* Specification SpecDebounce: editing against the clock, in quanta of a   *)
(* quarter of the debounce window, with the saves the timer starts          *)

NextDebounce ==
    \/ Edit
    \/ Switch
    \/ Tick(Quantum)
    \/ \E i \in 1..Len(saveTimers) : AutoSaveFire(i)
    \/ \E i \in 1..Len(savesInFlight) : SaveResolved(i)
    \/ \E i \in 1..Len(savesInFlight) : SaveRejected(i)

SpecDebounce == Init /\ [][NextDebounce]_vars

\* C5: at most one autosave timeout is pending; while the window of the last
\* mutating call is open that timeout is the one set by it and no trigger has
\* come since; a trigger comes only when the window has elapsed, and once it
\* has come no timeout is left, so that the burst gets exactly one.
C5_Debounce ==
    /\ Len(saveTimers) <= 1
    /\ fired <= 1
    /\ quiet < AutoSaveDelay => (fired = 0 /\ saveTimers = <<AutoSaveDelay - quiet>>)
    /\ fired = 1 => (quiet = AutoSaveDelay /\ saveTimers = <<>>)
    /\ (quiet = AutoSaveDelay /\ saveTimers = <<>> /\ saveTimeout # "null") => fired = 1

\* C5 witness: the trigger has come after a burst, the last call of which
\* arrived inside the window of the call before it
C5_Witness ==
    /\ last.op = "autoSaveRequested"
    /\ bursting
    /\ fired = 1
    /\ saveTimers = <<>>

----------------------------------------------------------------------------
(* Specification SpecReorder: a file is loaded into the empty store,       *)
(* whatever the order of its pages and whether or not its records carry    *)
(* ids or repeat them; then the reading-order panel and other callers      *)
(* reorder with any id list.                                               *)

\* the store is empty and no mutating call has been made yet
Pristine == annotations = <<>> /\ ~isDirty /\ saveTimeout = "null"

\* an id no annotation has
MissingId == Uuid(MaxFresh + 1)

NextReorder ==
    \/ Pristine /\ \E raw \in FileArrays(0..MaxFileId, {1, 2}, {20}, MaxLen) :
          SetAnnotations(raw)
    \/ \E newIds \in SeqsUpTo(IdsIn(annotations) \cup {MissingId}, Len(annotations)) :
          ReorderAnnotations(newIds)

SpecReorder == Init /\ [][NextReorder]_vars

PagesIn(anns) == {anns[i].page_number : i \in 1..Len(anns)}
IndicesOfPage(anns, page) == {i \in 1..Len(anns) : anns[i].page_number = page}
Count(s, x) == Cardinality({i \in 1..Len(s) : s[i] = x})

\* t lists the elements of s, each as often as s has it
IsPermutation(s, t) ==
    /\ Len(s) = Len(t)
    /\ \A x \in Range(s) \cup Range(t) : Count(s, x) = Count(t, x)

\* newIds is a permutation of the ids of the annotations of the page
PermutationOfPage(anns, page, newIds) ==
    IsPermutation(IdsOf(AnnotationsForPage(anns, page)), newIds)

\* C6: a reorder whose id list is empty, or is not a permutation of the ids
\* of a page of the collection (an id is missing from the store, an id of the
\* page is omitted or duplicated, an id is not on the page), changes no store
\* field, schedules no autosave and notifies nobody.
C6_InvalidReorderIsNoOp ==
    [][(/\ last'.op = "reorderAnnotations"
        /\ \/ last'.arg = <<>>
           \/ \A page \in PagesIn(annotations) :
                 ~PermutationOfPage(annotations, page, last'.arg))
         => /\ storeVars' = storeVars
            /\ timerVars' = timerVars
            /\ ~last'.notified]_vars

\* C7: after a reorder with a permutation of the ids of a page, the ids of
\* the page's annotations read in the given order, the page's annotations are
\* the records they were and sit at the indices the page had, and every
\* annotation of another page is the same record at the same index.
C7_ReorderPermutes ==
    [][(last'.op = "reorderAnnotations" /\ last'.arg # <<>>)
         => \A page \in PagesIn(annotations) :
               PermutationOfPage(annotations, page, last'.arg)
               => /\ Len(annotations') = Len(annotations)
                  /\ IdsOf(AnnotationsForPage(annotations', page)) = last'.arg
                  /\ IndicesOfPage(annotations', page) = IndicesOfPage(annotations, page)
                  /\ IsPermutation(AnnotationsForPage(annotations, page),
                                   AnnotationsForPage(annotations', page))
                  /\ \A i \in 1..Len(annotations) :
                        annotations[i].page_number # page
                        => annotations'[i] = annotations[i]]_vars

\* the index the insertion rule gives: after the last annotation of the
\* page, else after the last annotation of an earlier page, else 0
RuleIndex(anns, page) ==
    LET same == IndicesOfPage(anns, page)
        earlier == {i \in 1..Len(anns) : anns[i].page_number < page}
        Max(S) == CHOOSE m \in S : \A n \in S : n <= m
    IN  IF same # {} THEN Max(same)
        ELSE IF earlier # {} THEN Max(earlier)
        ELSE 0

\* C8: add puts the new annotation, with a fresh id, right after the last
\* annotation of its page if the page has one, else right after the last
\* annotation of an earlier page, else at index 0; the annotations there were
\* keep their relative order.
C8_InsertionRule ==
    [][last'.op = "addAnnotation"
         => LET k == RuleIndex(annotations, last'.arg.page_number)
            IN  /\ Len(annotations') = Len(annotations) + 1
                /\ annotations'[k + 1] \notin Range(annotations)
                /\ Restrict(annotations'[k + 1], RawFields) = last'.arg
                /\ SubSeq(annotations', 1, k) = SubSeq(annotations, 1, k)
                /\ SubSeq(annotations', k + 2, Len(annotations'))
                      = SubSeq(annotations, k + 1, Len(annotations))]_vars

----------------------------------------------------------------------------
(* Specification SpecInsert: a file whose records carry distinct ids is    *)
(* loaded, whatever the order of its pages; then annotations are drawn on  *)
(* three pages and deleted.                                                 *)

Pages == {1, 2, 3}

\* no two elements of the array carry the same id
DistinctIds(raw) == Cardinality(IdsIn(raw)) = Len(raw)

NextInsert ==
    \/ Pristine /\ \E raw \in FileArrays(1..MaxFileId, Pages, {20}, MaxLen) :
          DistinctIds(raw) /\ SetAnnotations(raw)
    \/ /\ Len(annotations) < MaxLen
       /\ \E page \in Pages : AddAnnotation(Drawn(page, 20, 20))
    \/ \E id \in IdsIn(annotations) : DeleteAnnotation(id)

SpecInsert == Init /\ [][NextInsert]_vars

----------------------------------------------------------------------------
(* Specification SpecGeom: the extent of the rectangles. A file with       *)
(* records of any extent is loaded; callers of the store add, update,      *)
(* delete and reorder with numbers of either sign.                         *)

Extents == {-5, 20}

\* what callers pass to updateAnnotation: a size of either sign, a text
Patches(n) == {[width |-> -n], [height |-> -n, text |-> "x"], [text |-> "x"]}

NextGeom ==
    \/ Pristine /\ \E raw \in FileArrays(1..MaxFileId, {1}, Extents, GeomMaxLen) :
          DistinctIds(raw) /\ SetAnnotations(raw)
    \/ /\ Len(annotations) < GeomMaxLen
       /\ \E w, h \in Extents : AddAnnotation(Drawn(1, w, h))
    \/ \E id \in IdsIn(annotations), updates \in Patches(7), skipRender \in BOOLEAN :
          UpdateAnnotation(id, updates, skipRender)
    \/ \E id \in IdsIn(annotations) : DeleteAnnotation(id)
    \/ \E newIds \in Perms(IdsIn(annotations)) : ReorderAnnotations(newIds)

SpecGeom == Init /\ [][NextGeom]_vars

\* C9: after an update of an annotation of the collection, the width and the
\* height of that annotation are >= 0, a width or height the patch carries is
\* stored as its absolute value, and every field the patch does not carry
\* keeps its value.
C9_UpdateNormalizes ==
    [][(last'.op = "updateAnnotation" /\ last'.arg[1] \in IdsIn(annotations))
         => LET updates == last'.arg[2]
                k == FindIndex(annotations, last'.arg[1])
            IN  /\ annotations'[k].width >= 0
                /\ annotations'[k].height >= 0
                /\ "width" \in DOMAIN updates => annotations'[k].width = Abs(updates.width)
                /\ "height" \in DOMAIN updates => annotations'[k].height = Abs(updates.height)
                /\ \A f \in Fields \ DOMAIN updates : annotations'[k][f] = annotations[k][f]]_vars

\* C10: in every reachable state every annotation of the collection has
\* width >= 0 and height >= 0.
C10_ExtentNonNegative ==
    \A i \in 1..Len(annotations) : annotations[i].width >= 0 /\ annotations[i].height >= 0

----------------------------------------------------------------------------
(* SpecLoad: replaceAll on the arrays a file may hold, among them elements   *)
(* the schema rejects, elements without an id or with the empty id, and     *)
(* elements with a key the schema does not know                             *)

\* an element with a key that is no field of an annotation
Tagged(id, page, w, h) ==
    [id |-> id, left |-> 0, top |-> 0, width |-> w, height |-> h, page_number |-> page,
     page_width |-> 600, page_height |-> 800, text |-> "", type |-> "Text",
     confidence |-> 1]

\* an element that lacks the width
Partial(page, h) ==
    [left |-> 0, top |-> 0, height |-> h, page_number |-> page,
     page_width |-> 600, page_height |-> 800, text |-> "", type |-> "Text"]

\* the arrays of up to n elements of any of these kinds; id 0 is the empty id
LoadedArrays(ids, n) ==
    SeqsUpTo({Sized(id, 1, 20, 20) : id \in ids \cup {0}}
             \cup {Drawn(1, 20, 20), Sized(1, 1, -5, 20), Tagged(1, 1, 20, 20),
                   Partial(1, 20)}, n)

NextLoad ==
    \/ Pristine /\ \E raw \in LoadedArrays(1..MaxFileId, MaxLen) : SetAnnotations(raw)
    \/ ~Pristine /\ SetAnnotations(<<>>)

SpecLoad == Init /\ [][NextLoad]_vars

\* the items of an array that replaceAll accepts, in the array's order
Accepted(raw) == SelectSeq(raw, FlexibleAnnotationSchema)

\* C11: for any array, replaceAll completes, and the collection it leaves is
\* the items of the array that pass the schema (with or without an id), one
\* record per accepted item, in the array's order, whatever invalid items
\* stand between them
C11_ReplaceAllFilters ==
    [][last'.op = "setAnnotations" =>
         /\ last'.out = "ok"
         /\ Len(annotations') = Len(Accepted(last'.arg))
         /\ \A i \in 1..Len(annotations') :
                Restrict(annotations'[i], RawFields)
                    = Restrict(Accepted(last'.arg)[i], RawFields)]_vars

\* a load whose array has an invalid item between two valid ones
C11_Witness ==
    /\ last.op = "setAnnotations"
    /\ Len(last.arg) = 3
    /\ FlexibleAnnotationSchema(last.arg[1])
    /\ ~FlexibleAnnotationSchema(last.arg[2])
    /\ FlexibleAnnotationSchema(last.arg[3])
    /\ Len(annotations) = 2

\* C12: replaceAll keeps the id of an accepted item that carries a non-empty
\* id, gives every other accepted item an id that was not handed out before
\* and that no other record of the resulting collection has, and leaves the
\* other fields of the accepted items as they were
C12_ReplaceAllIds ==
    [][last'.op = "setAnnotations" =>
         /\ Len(annotations') = Len(Accepted(last'.arg))
         /\ \A i \in 1..Len(annotations') :
                LET item == Accepted(last'.arg)[i]
                IN  /\ DOMAIN annotations'[i] = Fields
                    /\ Restrict(annotations'[i], RawFields) = Restrict(item, RawFields)
                    /\ HasId(item) => annotations'[i].id = item.id
                    /\ ~HasId(item) =>
                          /\ annotations'[i].id > Uuid(nextUuid)
                          /\ \A j \in 1..Len(annotations') :
                                j # i => annotations'[j].id # annotations'[i].id]_vars

\* a load that kept a file's id and generated two
C12_Witness ==
    /\ last.op = "setAnnotations"
    /\ Len(annotations) = 3
    /\ \E i, j, k \in 1..3 :
          /\ HasId(last.arg[i]) /\ annotations[i].id = last.arg[i].id
          /\ j # k /\ ~HasId(last.arg[j]) /\ ~HasId(last.arg[k])
          /\ "id" \in DOMAIN last.arg[j]
          /\ annotations[j].id # annotations[k].id

----------------------------------------------------------------------------
(* SpecText: typing into the text of loaded annotations, committing it on   *)
(* blur, deleting annotations and switching documents while text timeouts   *)
(* are pending                                                              *)

Texts == {"a", "ab"}

\* the documents that are opened: one annotation, or two, on the page given
TextDocs(page) ==
    {<<Sized(1, page, 20, 20)>>, <<Sized(1, page, 20, 20), Sized(2, page, 20, 20)>>}

NextText ==
    \/ Pristine /\ \E raw \in TextDocs(1) : SetAnnotations(raw)
    \/ ~Pristine /\ SetAnnotations(<<>>)
    \/ \E id \in IdsIn(annotations), text \in Texts : DebounceTextUpdate(id, text)
    \/ \E id \in IdsIn(annotations), text \in Texts : FlushTextUpdate(id, text)
    \/ \E id \in IdsIn(annotations) : DeleteAnnotation(id)
    \/ \E i \in 1..Len(textTimers) : TextTimeoutFire(i)
    \/ \E i \in 1..Len(saveTimers) : AutoSaveFire(i)
    \/ Tick(TextQuantum)

SpecText == Init /\ [][NextText]_vars

\* the pending text timeouts of an id
PendingOf(id) == {i \in 1..Len(textTimers) : textTimers[i].id = id}

\* what holds of an id whose last text edit was debounced: while the window
\* is open nothing has run and one timeout is pending, carrying the last text
\* and due when the window closes; afterwards the timeout has run, once
TextDebounced(id) ==
    /\ Cardinality(PendingOf(id)) <= 1
    /\ \A i \in PendingOf(id) :
          /\ textTimers[i].text = typed[id].text
          /\ textTimers[i].left = TextDelay - typed[id].quiet
          /\ typed[id].runs = 0
    /\ typed[id].quiet < TextDelay => PendingOf(id) # {}
    /\ PendingOf(id) = {} => typed[id].runs = 1

\* C14: however many debounced edits of one id follow each other within the
\* window, one timeout is pending for the id, with the text of the last
\* edit; it runs once, a full window after the last edit and not before, and
\* applies that text to the annotation of the id
C14_TextDebounce ==
    [][/\ \A id \in DOMAIN typed' : ~typed'[id].flushed => TextDebounced(id)'
       /\ last'.op = "textUpdateTimeout" =>
             LET id == last'.arg[1]
                 index == FindIndex(annotations, id)
             IN  /\ typed[id].quiet = TextDelay
                 /\ last'.arg[2].text = typed[id].text
                 /\ index # 0 =>
                       /\ annotations'[index].text = typed[id].text
                       /\ \A j \in 1..Len(annotations) :
                             j # index => annotations'[j] = annotations[j]]_vars

\* edits of one id, each within the window of the one before, were followed
\* by the one timeout running: the annotation has the last text
C14_Witness ==
    /\ last.op = "textUpdateTimeout"
    /\ \E id \in DOMAIN typed :
          /\ last.arg[1] = id
          /\ typed[id].burst
          /\ typed[id].text = "ab"
          /\ typed[id].runs = 1
          /\ FindIndex(annotations, id) # 0
          /\ annotations[FindIndex(annotations, id)].text = "ab"
          /\ Len(annotations) = 2

\* the text timeouts of the ids other than id, in the order they were set
OthersOf(ts, id) == LET Other(t) == t.id # id IN SelectSeq(ts, Other)

\* C15: flushTextUpdate(id, text) puts the text into the annotation at once
\* and leaves no timeout pending for the id, so that until the id is edited
\* again no timeout runs for it; the timeouts and map entries of the other
\* ids are as they were
C15_FlushCancels ==
    [][/\ last'.op = "flushTextUpdate" =>
             LET id == last'.arg[1]
                 index == FindIndex(annotations, id)
             IN  /\ index # 0 => annotations'[index].text = last'.arg[2].text /\ isDirty'
                 /\ OthersOf(textTimers', id) = OthersOf(textTimers, id)
                 /\ textUpdateTimeouts' \ {id} = textUpdateTimeouts \ {id}
       /\ \A id \in DOMAIN typed' : typed'[id].flushed => PendingOf(id)' = {}
       /\ last'.op = "textUpdateTimeout" => ~typed[last'.arg[1]].flushed]_vars

\* a flush that cleared the pending timeout of its id while the timeout of
\* another id stayed pending
C15_Witness ==
    /\ last.op = "flushTextUpdate"
    /\ last.out = "cleared"
    /\ FindIndex(annotations, last.arg[1]) # 0
    /\ annotations[FindIndex(annotations, last.arg[1])].text = "ab"
    /\ PendingOf(last.arg[1]) = {}
    /\ \E i \in 1..Len(textTimers) : textTimers[i].id # last.arg[1]

\* C16: a text timeout that runs for an id the collection does not hold
\* (the annotation was deleted, or another document was loaded) changes
\* neither the collection nor the selection, isDirty or the autosave timer,
\* notifies nobody and completes
C16_StaleTextTimeout ==
    [][(last'.op = "textUpdateTimeout" /\ FindIndex(annotations, last'.arg[1]) = 0) =>
          /\ UNCHANGED <<annotations, selectedAnnotation, isDirty, saveTimeout, saveTimers>>
          /\ ~last'.notified
          /\ last'.out = "ok"]_vars

\* the timeout of an id ran after another document replaced the one that
\* held the id: the store is clean and the autosave timer was never set
C16_Witness ==
    /\ last.op = "textUpdateTimeout"
    /\ FindIndex(annotations, last.arg[1]) = 0
    /\ ~isDirty
    /\ saveTimeout = "null"
    /\ durable = <<>>

----------------------------------------------------------------------------
(* SpecDelete: selecting and deleting annotations of a loaded document      *)

NextDelete ==
    \/ Pristine /\ \E raw \in FileArrays(1..MaxFileId, {1}, {20}, MaxLen) : SetAnnotations(raw)
    \/ \E i \in 1..Len(annotations) : SelectAnnotation(<<annotations[i]>>)
    \/ selectedAnnotation # <<>> /\ SelectAnnotation(<<>>)
    \/ \E id \in IdsIn(annotations) : DeleteAnnotation(id)
    \/ \E i \in 1..Len(saveTimers) : AutoSaveFire(i)
    \/ Tick(AutoSaveDelay)

SpecDelete == Init /\ [][NextDelete]_vars

\* C17: delete(id) of an annotation of the collection removes that one
\* record and keeps the others in their order; the selection becomes null
\* when the selected annotation had the id and is otherwise unchanged; the
\* store is dirty and one autosave timeout is pending, with the full delay
C17_DeleteRemovesOne ==
    [][(last'.op = "deleteAnnotation" /\ FindIndex(annotations, last'.arg) # 0) =>
          /\ annotations' = RemoveAt(annotations, FindIndex(annotations, last'.arg))
          /\ selectedAnnotation' =
                IF selectedAnnotation # <<>> /\ selectedAnnotation[1].id = last'.arg
                THEN <<>> ELSE selectedAnnotation
          /\ isDirty'
          /\ saveTimeout' = "pending"
          /\ saveTimers' = <<AutoSaveDelay>>]_vars

----------------------------------------------------------------------------
(* SpecListen: listeners subscribe and unsubscribe, some of them from       *)
(* inside their callback, while the store is loaded and mutated             *)

ListenerIds(ls) == {ls[i].id : i \in 1..Len(ls)}

NextListen ==
    \/ \E l \in (1..MaxListeners) \ ListenerIds(listeners), once \in BOOLEAN :
          Subscribe(l, once)
    \/ \E i \in 1..Len(listeners) : Unsubscribe(listeners[i])
    \/ Pristine /\ \E raw \in TextDocs(1) : SetAnnotations(raw)
    \/ annotations = <<>> /\ nextUuid = 0 /\ AddAnnotation(Drawn(1, 20, 20))
    \/ \E id \in IdsIn(annotations) \cup {MissingId}, skipRender \in BOOLEAN :
          /\ skipRender => id = MissingId
          /\ UpdateAnnotation(id, [text |-> "x"], skipRender)
    \/ \E id \in IdsIn(annotations) : DeleteAnnotation(id)
    \/ \E i \in 1..Len(annotations) : SelectAnnotation(<<annotations[i]>>)
    \/ \E newIds \in Perms(IdsIn(annotations)) : ReorderAnnotations(newIds)

SpecListen == Init /\ [][NextListen]_vars

\* C18: update(id, patch) with an id the collection does not hold changes
\* neither the collection nor the selection or isDirty, leaves the autosave
\* timer as it is and calls no listener
C18_UpdateMissingIsNoOp ==
    [][(last'.op = "updateAnnotation" /\ FindIndex(annotations, last'.arg[1]) = 0) =>
          /\ UNCHANGED <<annotations, selectedAnnotation, isDirty, saveTimeout, saveTimers>>
          /\ ~last'.notified
          /\ UNCHANGED <<listeners, calls>>]_vars

\* an update of an absent id on a loaded, clean store that has listeners
C18_Witness ==
    /\ last.op = "updateAnnotation"
    /\ last.arg[1] = MissingId
    /\ Len(annotations) = 2
    /\ ~isDirty
    /\ saveTimeout = "null"
    /\ Len(listeners) = 2

\* C19: at every notifying mutation, each listener that is subscribed and
\* does not unsubscribe itself is called once, whatever the other listeners
\* do, unsubscribing from inside their callback included
C19_ListenersCalledOnce ==
    [][last'.notified =>
          \A i \in 1..Len(listeners) :
             ~listeners[i].once => Count(calls', listeners[i].id) = 1]_vars

----------------------------------------------------------------------------
(* SpecGesture: the gestures on a rendered page. A one-page document is     *)
(* rendered, a file with two annotations is loaded, and the pointer goes    *)
(* down, moves and goes up on the overlay and on the boxes, at positions    *)
(* within and beyond the page; an annotation may be deleted at any time.    *)
(* Gestures start while the loaded file is unchanged.                       *)

\* the size of the pages of the document, in px
Viewport(page) ==
    IF page = 1 THEN [width |-> Px(40), height |-> Px(40)]
    ELSE [width |-> Px(30), height |-> Px(50)]

\* the loaded file: a 20x20 px rectangle, and one authored on a page twice
\* as large that is shown 4x4 px
GestureDoc ==
    <<[id |-> 1, left |-> Px(10), top |-> Px(10), width |-> Px(20), height |-> Px(20),
       page_number |-> 1, page_width |-> Px(40), page_height |-> Px(40), text |-> "",
       type |-> "Text"],
      [id |-> 2, left |-> Px(60), top |-> Px(0), width |-> Px(8), height |-> Px(8),
       page_number |-> 1, page_width |-> Px(80), page_height |-> Px(80), text |-> "",
       type |-> "Text"]>>

\* where the pointer is, relative to the overlay
At(cs) == {[x |-> Px(c[1]), y |-> Px(c[2])] : c \in cs}
Pointers == At({<<5, 5>>, <<16, 16>>, <<48, 16>>})

\* where the pointer goes down on a box: one px within its corner
Grab(box) == [x |-> Add(box.left, Px(1)), y |-> Add(box.top, Px(1))]

NextGesture ==
    \/ canvas.page = 0 /\ pageRenders = <<>> /\ RenderPage(1)
    \/ \E i \in 1..Len(pageRenders) : PageGot(i, Viewport(pageRenders[i].page))
    \/ \E i \in 1..Len(pageRenders) : PageRendered(i)
    \/ Pristine /\ overlay.styled /\ SetAnnotations(GestureDoc)
    \/ overlay.styled /\ ~isDirty /\ \E p \in Pointers : MouseDown(p)
    \/ ~isDirty /\ \E i \in 1..Len(rendered.boxes), handle \in Handles \cup {"box"} :
          AnnotationMouseDown(i, handle,
                              Grab(CreateAnnotationElement(rendered.boxes[i], rendered)))
    \/ overlay.styled /\ \E p \in Pointers : MouseMove(p)
    \/ overlay.styled /\ \E p \in Pointers : MouseUp(p) /\ nextUuid' <= 1
    \/ \E id \in IdsIn(annotations) : DeleteAnnotation(id)

SpecGesture == Init /\ [][NextGesture]_vars

\* C22: a pointerUp, in whichever of Creating, Dragging and Resizing the
\* controller is, does not throw and leaves it Idle: the three gesture flags
\* false, no active annotation, no anchor and no start bounds; this also after
\* the boxes were rendered anew or the annotation of the gesture was deleted
\* during the gesture, and then the commit of a drag or resize leaves the
\* collection as it was.
C22_PointerUpToIdle ==
    [][last'.op = "mouseup"
         => /\ last'.out = "ok"
            /\ ~isCreatingAnnotation' /\ ~isDragging' /\ ~isResizing'
            /\ activeAnnotation' = <<>>
            /\ oppositeCorner' = <<>>
            /\ resizeStartBounds' = <<>>
            /\ (/\ ~last'.arg.creating
                /\ last'.arg.active # <<>>
                /\ last'.arg.active[1].id \notin IdsIn(annotations))
                  => annotations' = annotations]_vars

\* a pointerUp ended a resize whose annotation had been deleted meanwhile
C22_Witness ==
    /\ last.op = "mouseup"
    /\ last.arg.resizing
    /\ last.arg.active # <<>>
    /\ last.arg.active[1].id \notin IdsIn(annotations)
    /\ last.out = "ok"
    /\ ~isResizing

\* C27: whenever the controller is Idle (no gesture flag set), no selection
\* box and no resize overlay is a child of the overlay.
C27_IdleHasNoPreview ==
    (~isCreatingAnnotation /\ ~isDragging /\ ~isResizing)
        => (rendered.selectionBoxes = 0 /\ rendered.resizeOverlays = 0)

\* C38: at most one of Creating, Dragging and Resizing is active.
C38_OnePhaseActive ==
    /\ ~(isCreatingAnnotation /\ isDragging)
    /\ ~(isCreatingAnnotation /\ isResizing)
    /\ ~(isDragging /\ isResizing)

----------------------------------------------------------------------------
(* SpecCreate: rectangles drawn on the overlay of a rendered page, of sizes *)
(* below, at and above the minimum                                          *)

DrawPointers ==
    At({<<5, 5>>, <<10, 10>>, <<15, 15>>, <<16, 15>>, <<16, 16>>, <<48, 16>>, <<-8, 5>>})

NextCreate ==
    \/ canvas.page = 0 /\ pageRenders = <<>> /\ RenderPage(1)
    \/ \E i \in 1..Len(pageRenders) : PageGot(i, Viewport(pageRenders[i].page))
    \/ \E i \in 1..Len(pageRenders) : PageRendered(i)
    \/ overlay.styled /\ ~isDirty /\ \E p \in DrawPointers : MouseDown(p)
    \/ overlay.styled /\ \E p \in DrawPointers : MouseMove(p)
    \/ overlay.styled /\ \E p \in DrawPointers : MouseUp(p) /\ nextUuid' <= 1

SpecCreate == Init /\ [][NextCreate]_vars

\* C23: a pointerUp in Creating adds no annotation and leaves the dirty flag
\* as it was exactly when the width or the height of the drawn rectangle is
\* below 10 px; otherwise it adds exactly one annotation.
C23_MinimumFootprint ==
    [][(last'.op = "mouseup" /\ last'.arg.creating)
         => LET width  == Abs(last'.arg.p.x - startPoint[1].x)
                height == Abs(last'.arg.p.y - startPoint[1].y)
            IN  IF width < Px(10) \/ height < Px(10)
                THEN annotations' = annotations /\ isDirty' = isDirty
                ELSE Len(annotations') = Len(annotations) + 1]_vars

----------------------------------------------------------------------------
(* SpecAdjust: the boxes of a rendered page are dragged and resized, the    *)
(* pointer moving within and beyond the page; an annotation may be deleted  *)
(* at any time                                                              *)

AdjustPointers ==
    At({<<5, 5>>, <<15, 15>>, <<16, 16>>, <<22, 30>>, <<48, 16>>, <<-8, 5>>, <<35, 48>>})

NextAdjust ==
    \/ canvas.page = 0 /\ pageRenders = <<>> /\ RenderPage(1)
    \/ \E i \in 1..Len(pageRenders) : PageGot(i, Viewport(pageRenders[i].page))
    \/ \E i \in 1..Len(pageRenders) : PageRendered(i)
    \/ Pristine /\ overlay.styled /\ SetAnnotations(GestureDoc)
    \/ ~isDirty /\ \E i \in 1..Len(rendered.boxes), handle \in Handles \cup {"box"} :
          AnnotationMouseDown(i, handle,
                              Grab(CreateAnnotationElement(rendered.boxes[i], rendered)))
    \/ overlay.styled /\ \E p \in AdjustPointers : MouseMove(p)
    \/ overlay.styled /\ \E p \in AdjustPointers : MouseUp(p)
    \/ \E id \in IdsIn(annotations) : DeleteAnnotation(id)

SpecAdjust == Init /\ [][NextAdjust]_vars

\* the fields of an annotation that are not its position
Others == Fields \ {"left", "top"}

\* what a pointerUp in Dragging would commit for the box as it is
Committed(box, annotation) ==
    DragPatch(box, Div(canvas.width, annotation.page_width),
              Div(canvas.height, annotation.page_height))

\* C24: the pointerUp of a drag updates the annotation once, and only its
\* left and top: its other fields and the other annotations are as before,
\* left and top are those of the dragged box; and after every pointerMove of
\* a drag the left and top the pointerUp would commit are >= 0.
C24_DragCommitsPosition ==
    [][/\ (/\ last'.op = "mouseup"
            /\ last'.arg.dragging /\ ~last'.arg.resizing /\ ~last'.arg.creating
            /\ last'.arg.active # <<>>
            /\ last'.arg.active[1].id \in IdsIn(annotations))
             => LET k == FindIndex(annotations, last'.arg.active[1].id)
                    patch == Committed(selectedBox[1], last'.arg.active[1])
                IN  /\ Len(annotations') = Len(annotations)
                    /\ \A j \in 1..Len(annotations) :
                          j # k => annotations'[j] = annotations[j]
                    /\ Restrict(annotations'[k], Others) = Restrict(annotations[k], Others)
                    /\ annotations'[k].left = patch.left
                    /\ annotations'[k].top = patch.top
       /\ (/\ last'.op = "mousemove"
            /\ isDragging' /\ selectedBox' # <<>> /\ activeAnnotation' # <<>>)
             => /\ Committed(selectedBox'[1], activeAnnotation'[1]).left >= 0
                /\ Committed(selectedBox'[1], activeAnnotation'[1]).top >= 0]_vars

\* a drag whose pointer went left of the page was committed: the annotation
\* moved, to the left edge
C24_Witness ==
    /\ last.op = "mouseup"
    /\ last.arg.dragging /\ ~last.arg.resizing
    /\ last.arg.active # <<>>
    /\ \E k \in 1..Len(annotations) :
          /\ annotations[k].id = last.arg.active[1].id
          /\ annotations[k].left = 0
          /\ last.arg.active[1].left > 0
    /\ last.arg.p.x < 0

\* the step is a pointerMove that handleMouseMove passes to
\* updateResizingAnnotation, which goes past its first guard
ResizeMoved ==
    /\ last'.op = "mousemove"
    /\ isResizing /\ ~isDragging /\ ~isCreatingAnnotation
    /\ selectedBox # <<>> /\ oppositeCorner # <<>> /\ resizeOverlay # <<>>

\* the rectangle r is within the surface
Inside(r, surface) ==
    /\ r.left >= 0 /\ r.top >= 0
    /\ r.left + r.width <= surface.offsetWidth
    /\ r.top + r.height <= surface.offsetHeight

\* the rectangle r is at least 10 px wide and high and within the surface
AtLeastMinInside(r, surface) ==
    r.width >= Px(10) /\ r.height >= Px(10) /\ Inside(r, surface)

\* C25 (as stated): on a surface of at least 10x10 px, with a starting
\* rectangle inside it, after every pointerMove handled in Resizing the
\* preview is at least 10 px wide and high and inside the surface.
C25_PreviewAlwaysMin ==
    [][(/\ ResizeMoved
        /\ overlay.offsetWidth >= Px(10) /\ overlay.offsetHeight >= Px(10)
        /\ Inside(resizeStartBounds[1], overlay))
         => AtLeastMinInside(resizeOverlay'[1], overlay)]_vars

\* C25 (amended): on a surface of at least 10x10 px, after every pointerMove of
\* a resize that is accepted (the rectangle between the anchor and the pointer
\* is at least 10 px wide and high) the preview is at least 10 px wide and
\* high and inside the surface; a pointerMove that is refused leaves the
\* preview as it was, also when that is smaller than 10 px; and the pointerUp
\* commits the preview as the last pointerMove left it.
C25_AcceptedPreviewMin ==
    [][/\ (/\ ResizeMoved
           /\ overlay.offsetWidth >= Px(10) /\ overlay.offsetHeight >= Px(10))
            => IF TooSmall(oppositeCorner[1], last'.arg)
               THEN resizeOverlay' = resizeOverlay /\ selectedBox' = selectedBox
               ELSE AtLeastMinInside(resizeOverlay'[1], overlay)
       /\ (/\ last'.op = "mouseup"
           /\ last'.arg.resizing /\ ~last'.arg.dragging /\ ~last'.arg.creating
           /\ last'.arg.active # <<>>
           /\ last'.arg.active[1].id \in IdsIn(annotations))
            => LET k == FindIndex(annotations, last'.arg.active[1].id)
                   scaleX == Div(canvas.width, last'.arg.active[1].page_width)
                   scaleY == Div(canvas.height, last'.arg.active[1].page_height)
               IN  /\ annotations'[k].left = Div(resizeOverlay[1].left, scaleX)
                   /\ annotations'[k].top = Div(resizeOverlay[1].top, scaleY)
                   /\ annotations'[k].width = Div(resizeOverlay[1].width, scaleX)
                   /\ annotations'[k].height = Div(resizeOverlay[1].height, scaleY)]_vars

\* a pointerMove beyond the right edge of the page was accepted: the preview
\* changed and ends at that edge
C25_Witness ==
    /\ last.op = "mousemove"
    /\ isResizing /\ ~isDragging /\ resizeOverlay # <<>>
    /\ last.arg.x > overlay.offsetWidth
    /\ resizeOverlay[1] # resizeStartBounds[1]
    /\ resizeOverlay[1].left + resizeOverlay[1].width = overlay.offsetWidth

\* the corners of the rectangle r
Corners(r) ==
    {[x |-> x, y |-> y] : x \in {r.left, r.left + r.width}, y \in {r.top, r.top + r.height}}

\* C26: after every pointerMove that a resize accepts, wherever the pointer
\* is, the anchor recorded at pointerDown is one of the corners of the preview.
C26_AnchorIsCorner ==
    [][(ResizeMoved /\ ~TooSmall(oppositeCorner[1], last'.arg))
         => oppositeCorner[1] \in Corners(resizeOverlay'[1])]_vars

----------------------------------------------------------------------------
(* SpecPage: the pages of a two-page document are shown in turn while a     *)
(* file is loaded and its annotations are selected and deleted              *)

\* the loaded file: one annotation on each page
PageDoc ==
    <<[id |-> 1, left |-> Px(10), top |-> Px(10), width |-> Px(20), height |-> Px(20),
       page_number |-> 1, page_width |-> Px(40), page_height |-> Px(40), text |-> "",
       type |-> "Text"],
      [id |-> 2, left |-> Px(5), top |-> Px(5), width |-> Px(20), height |-> Px(40),
       page_number |-> 2, page_width |-> Px(30), page_height |-> Px(50), text |-> "",
       type |-> "Text"]>>

NextPage ==
    \/ \E n \in {1, 2} : n # canvas.page /\ RenderPage(n)
    \/ \E i \in 1..Len(pageRenders) : PageGot(i, Viewport(pageRenders[i].page))
    \/ \E i \in 1..Len(pageRenders) : PageRendered(i)
    \/ \E i \in 1..Len(pageRenders) : PageFailed(i)
    \/ Pristine /\ SetAnnotations(PageDoc)
    \/ \E i \in 1..Len(annotations) : SelectAnnotation(<<annotations[i]>>)
    \/ \E id \in IdsIn(annotations) : DeleteAnnotation(id)

SpecPage == Init /\ [][NextPage]_vars

\* C28: whenever the annotations are rendered (after a store notification, or
\* at the end of renderPage), no renderPage call for the page whose
\* annotations are laid out is still in flight, and the canvas has the size of
\* that page.
C28_RenderAfterPage ==
    [][(last'.notified \/ (last'.op = "renderPage" /\ last'.out = "resolved"))
         => /\ \A i \in 1..Len(pageRenders') : pageRenders'[i].page # rendered'.page
            /\ rendered'.shown = rendered'.page]_vars

----------------------------------------------------------------------------
(* SpecConvert: an annotation authored on a page of one size is shown on a  *)
(* page rendered at another, and is dragged or resized without a pointer    *)
(* movement                                                                 *)

\* the sizes the page is rendered at, in px
ConvertViewports ==
    {[width |-> Px(w), height |-> Px(h)] : w \in {30, 40, 57}, h \in {40, 50, 63}}

\* the loaded file: one annotation
ConvertDoc(left, top, width, height, page_width, page_height) ==
    <<[id |-> 1, left |-> Px(left), top |-> Px(top), width |-> Px(width),
       height |-> Px(height), page_number |-> 1, page_width |-> Px(page_width),
       page_height |-> Px(page_height), text |-> "", type |-> "Text"]>>

NextConvert ==
    \/ canvas.page = 0 /\ pageRenders = <<>> /\ RenderPage(1)
    \/ \E i \in 1..Len(pageRenders), viewport \in ConvertViewports : PageGot(i, viewport)
    \/ \E i \in 1..Len(pageRenders) : PageRendered(i)
    \/ Pristine /\ overlay.styled
         /\ \E left \in {0, 13}, top \in {7}, width \in {11, 25}, height \in {19},
               page_width \in {40, 57}, page_height \in {40, 61} :
               SetAnnotations(ConvertDoc(left, top, width, height, page_width, page_height))
    \/ ~isDirty /\ \E i \in 1..Len(rendered.boxes), handle \in {"box", "se"} :
          AnnotationMouseDown(i, handle,
                              Grab(CreateAnnotationElement(rendered.boxes[i], rendered)))
    \/ overlay.styled /\ MouseUp([x |-> Px(16), y |-> Px(16)])

SpecConvert == Init /\ [][NextConvert]_vars

\* the screen rectangle r of an annotation converted back, for a canvas cv
ToAuthored(r, annotation, cv) ==
    ResizePatch(r, Div(cv.width, annotation.page_width),
                Div(cv.height, annotation.page_height))

\* the geometry
Geometry == {"left", "top", "width", "height"}

\* a is b up to the rounding of two operations
Close(a, b) == Abs(a - b) * 2 ^ MantissaBits <= 3 * Abs(b)

\* the step is the pointerUp of a drag or of a resize of an annotation of the
\* collection whose box is as it was rendered
Unmoved ==
    /\ last'.op = "mouseup"
    /\ last'.arg.dragging # last'.arg.resizing
    /\ ~last'.arg.creating
    /\ last'.arg.active # <<>>
    /\ last'.arg.active[1] \in Range(annotations)
    /\ selectedBox[1] = CreateAnnotationElement(last'.arg.active[1], canvas)

\* C29 (as stated): the screen rectangle of every rendered annotation,
\* converted back for the same canvas, is its left, top, width and height; and
\* the pointerUp of a drag or resize without a pointer movement leaves the
\* annotation as it was.
C29_RoundTripExact ==
    [][/\ \A i \in 1..Len(rendered'.boxes) :
            LET a == rendered'.boxes[i]
            IN  ToAuthored(CreateAnnotationElement(a, rendered'), a, rendered')
                    = Restrict(a, Geometry)
       /\ Unmoved => annotations' = annotations]_vars

\* C29 (amended): the screen rectangle of every rendered annotation, converted
\* back for the same canvas, is its left, top, width and height up to the
\* rounding of the multiplication and the division, a relative error of at
\* most 3 * 2^-MantissaBits; and the pointerUp of a drag or resize without a
\* pointer movement leaves the annotation's geometry within that error, and
\* its other fields and the other annotations as they were.
C29_RoundTripClose ==
    [][/\ \A i \in 1..Len(rendered'.boxes) :
            LET a == rendered'.boxes[i]
                back == ToAuthored(CreateAnnotationElement(a, rendered'), a, rendered')
            IN  \A f \in Geometry : Close(back[f], a[f])
       /\ Unmoved
            => /\ Len(annotations') = Len(annotations)
               /\ \A k \in 1..Len(annotations) :
                    /\ \A f \in Geometry : Close(annotations'[k][f], annotations[k][f])
                    /\ Restrict(annotations'[k], Fields \ Geometry)
                         = Restrict(annotations[k], Fields \ Geometry)]_vars

\* a resize without a pointer movement was committed, and the width came back
\* different, within the rounding error
C29_Witness ==
    /\ last.op = "mouseup"
    /\ last.arg.resizing
    /\ last.arg.active # <<>>
    /\ \E k \in 1..Len(annotations) :
          /\ annotations[k].id = last.arg.active[1].id
          /\ annotations[k].width # last.arg.active[1].width
          /\ Close(annotations[k].width, last.arg.active[1].width)

----------------------------------------------------------------------------
(* SpecSwitch: two JSON files are selected in turn; the loaded annotation   *)
(* is edited, the autosave timer fires and the user saves, while loads and  *)
(* saves are in flight                                                      *)

SwitchFiles == {"a.json", "b.json"}

\* the ids of the annotations a file holds
FileIds(f) == IF f = "a.json" THEN {1} ELSE {2}

\* what the gateway may answer a load of the file f with: its annotation, as
\* it was first or as an edit was saved
Contents(f) ==
    {<<[id |-> id, left |-> 0, top |-> 0, width |-> 20, height |-> 20, page_number |-> 1,
        page_width |-> 600, page_height |-> 800, text |-> text, type |-> "Text"]>> :
        id \in FileIds(f), text \in {"", "x"}}

NextSwitch ==
    \/ \E f \in SwitchFiles : HandleJsonSelected(f)
    \/ \E i \in 1..Len(loadsInFlight) : \E raw \in Contents(loadsInFlight[i]) :
          LoadResolved(i, raw)
    \/ \E i \in 1..Len(loadsInFlight) : LoadRejected(i)
    \/ \E id \in IdsIn(annotations) : UpdateAnnotation(id, [text |-> "x"], FALSE)
    \/ \E i \in 1..Len(saveTimers) : AutoSaveFire(i)
    \/ CtrlS
    \/ \E i \in 1..Len(savesInFlight) : SaveResolved(i)
    \/ \E i \in 1..Len(savesInFlight) : SaveRejected(i)
    \/ Tick(AutoSaveDelay)

SpecSwitch == Init /\ [][NextSwitch]_vars

\* C30: every gateway save in flight carries, for the file it names, only
\* annotations of that file: those loaded from it, as edited since.
C30_SavesOwnFile ==
    \A i \in 1..Len(savesInFlight) :
        IdsIn(savesInFlight[i].data) \subseteq FileIds(savesInFlight[i].file)

----------------------------------------------------------------------------
(* SpecReopen: a document is opened, its annotations' texts are typed into, *)
(* and a document is opened again (the same file, or another that holds the *)
(* same ids or others) while text timeouts are pending                      *)

NextReopen ==
    \/ /\ last.op # "setAnnotations"
       /\ \E raw \in TextDocs(1) \cup {<<Sized(2, 1, 20, 20)>>} : SetAnnotations(raw)
    \/ \E id \in IdsIn(annotations), text \in Texts : DebounceTextUpdate(id, text)
    \/ \E i \in 1..Len(textTimers) : TextTimeoutFire(i)
    \/ \E i \in 1..Len(saveTimers) : AutoSaveFire(i)
    \/ Tick(TextQuantum)

SpecReopen == Init /\ [][NextReopen]_vars

\* C31: a text timeout that runs right after a replaceAll, and so was set
\* before it, leaves the collection as the replaceAll stored it and isDirty
\* false.
C31_SwitchDropsTextEdits ==
    [][(last.op = "setAnnotations" /\ last'.op = "textUpdateTimeout") =>
          /\ annotations' = durable
          /\ ~isDirty']_vars

----------------------------------------------------------------------------
(* Spec: the upload of a sync *)

\* C32: a sync issues its upload (syncFile) only once its local save is no
\* longer in flight, and issues none when the gateway failed that save.
C32_UploadAfterSave ==
    [][/\ (syncPc # "uploading" /\ syncPc' = "uploading") =>
             \A i \in 1..Len(savesInFlight') : savesInFlight'[i].caller # "sync"
       /\ (/\ last'.op = "saveAnnotations.settled"
           /\ last'.arg.caller = "sync"
           /\ ~last'.arg.gatewayOk) => syncPc' # "uploading"]_vars

----------------------------------------------------------------------------
(* SpecExtract: rectangles are drawn on the pages of a two-page document,   *)
(* the pointer is released once or more per gesture, and pages are turned,  *)
(* while text extractions are in flight                                     *)

ExtractPointers == At({<<5, 5>>, <<16, 16>>})

\* what an extraction yields: nothing (it found no text, or failed), or text
ExtractedTexts == {"", "t"}

NextExtract ==
    \/ \E n \in {1, 2} : n # canvas.page /\ RenderPage(n)
    \/ \E i \in 1..Len(pageRenders) : PageGot(i, Viewport(pageRenders[i].page))
    \/ \E i \in 1..Len(pageRenders) : PageRendered(i)
    \/ \E i \in 1..Len(pageRenders) : PageFailed(i)
    \/ overlay.styled /\ \E p \in ExtractPointers : StartCreatingAnnotation(p)
    \/ overlay.styled /\ \E p \in ExtractPointers : HandleMouseUp(p)
    \/ \E i \in 1..Len(extractions), text \in ExtractedTexts :
          TextExtracted(i, text) /\ nextUuid' <= 2

SpecExtract == Init /\ [][NextExtract]_vars

\* C33: no draw gesture (a pointerDown on the overlay and the pointerUps that
\* follow it) has added more than one annotation.
C33_OneAnnotationPerGesture ==
    \A g \in 1..Len(drawn) : drawn[g] <= 1

\* C34: the annotation a draw gesture adds carries the page number and the
\* page size that were current when the pointer was released.
C34_PageOfRelease ==
    [][last'.op = "finishCreatingAnnotation" =>
          LET added == ById(annotations', Uuid(nextUuid'))
          IN  /\ added.page_number = last'.arg.extraction.page
              /\ added.page_width = last'.arg.extraction.page_width
              /\ added.page_height = last'.arg.extraction.page_height]_vars

----------------------------------------------------------------------------
(* SpecSorted: a file whose annotations are in page order is loaded, with   *)
(* or without ids, repeated or not; annotations are then drawn, deleted,    *)
(* edited and reordered page by page, as the reading-order panel does       *)

\* the pages of the collection are in non-decreasing order
Sorted(anns) ==
    \A i, j \in 1..Len(anns) : i < j => anns[i].page_number <= anns[j].page_number

NextSorted ==
    \/ Pristine /\ \E raw \in FileArrays({0, 1}, {1, 2}, {20}, SortedLen) :
          Sorted(raw) /\ SetAnnotations(raw)
    \/ /\ Len(annotations) < MaxLen
       /\ \E page \in Pages : AddAnnotation(Drawn(page, 20, 20))
    \/ \E id \in IdsIn(annotations) : DeleteAnnotation(id)
    \/ \E id \in IdsIn(annotations) : UpdateAnnotation(id, [text |-> "x"], FALSE)
    \/ \E page \in PagesIn(annotations) :
          \E newIds \in Perms(IdsIn(AnnotationsForPage(annotations, page))) :
             ReorderAnnotations(newIds)

SpecSorted == Init /\ [][NextSorted]_vars

\* C35: an add, a delete, a reorder or an update that leaves page_number
\* alone, applied to a collection whose pages are in non-decreasing order,
\* leaves them in non-decreasing order.
C35_StaysSorted ==
    [][(/\ last'.op \in {"addAnnotation", "deleteAnnotation", "reorderAnnotations",
                         "updateAnnotation"}
        /\ Sorted(annotations)) => Sorted(annotations')]_vars

\* C37: no two annotations of the collection have the same id.
C37_UniqueIds ==
    \A i, j \in 1..Len(annotations) : annotations[i].id = annotations[j].id => i = j

----------------------------------------------------------------------------
(* SpecSelect: documents are opened one after the other; their annotations  *)
(* are selected, edited, drawn, reordered and deleted, by the delete button *)
(* of a box or by the Delete key                                            *)

\* App.handleKeyboardShortcuts, Delete or Backspace outside an input: the
\* selected annotation, if there is one, is deleted by its id
HandleDeleteKey ==
    /\ selectedAnnotation # <<>>
    /\ DeleteAnnotation(selectedAnnotation[1].id)

NextSelect ==
    \/ /\ last.op # "setAnnotations"
       /\ \E raw \in TextDocs(1) \cup {<<Sized(2, 1, 20, 20)>>} : SetAnnotations(raw)
    \/ \E i \in 1..Len(annotations) : SelectAnnotation(<<annotations[i]>>)
    \/ selectedAnnotation # <<>> /\ SelectAnnotation(<<>>)
    \/ /\ Len(annotations) < MaxLen
       /\ nextUuid < EditMaxFresh
       /\ AddAnnotation(Drawn(1, 20, 20))
    \/ \E id \in IdsIn(annotations) : UpdateAnnotation(id, [text |-> "x"], FALSE)
    \/ \E id \in IdsIn(annotations) : DeleteAnnotation(id)
    \/ \E newIds \in Perms(IdsIn(annotations)) : ReorderAnnotations(newIds)
    \/ HandleDeleteKey

SpecSelect == Init /\ [][NextSelect]_vars

\* C36: the selected annotation, when there is one, has the id of an
\* annotation of the collection.
C36_SelectionInCollection ==
    selectedAnnotation # <<>> => ByIdHas(annotations, selectedAnnotation[1].id)

----------------------------------------------------------------------------
(* SequencePanel: the reading-order list and its drop handler               *)

\* the ids of the list items (li.dataset.id), in DOM order. The panel renders
\* the annotations of the current page whenever the store notifies and after
\* each page turn, as the viewer renders its boxes
PanelList == IdsOf(rendered.boxes)

\* ids.splice(start, 1), start being a 0-based index or -1 (which counts from
\* the end: the last element goes)
SpliceOut(ids, start) ==
    IF ids = <<>> THEN ids
    ELSE IF start < 0 THEN RemoveAt(ids, Len(ids))
    ELSE RemoveAt(ids, start + 1)

\* ids.splice(start, 0, id): a start beyond the end appends
SpliceIn(ids, start, id) ==
    SubSeq(ids, 1, Min(start, Len(ids))) \o <<id>>
        \o SubSeq(ids, Min(start, Len(ids)) + 1, Len(ids))

\* the drop handler: the id order it passes to reorderAnnotations, for the
\* dragged id and the list item (the target-th child, 1-based) dropped on
DroppedOrder(ids, draggedId, target) ==
    SpliceIn(SpliceOut(ids, IndexOf(ids, draggedId) - 1), target - 1, draggedId)

\* drop on the target-th item of the list, the drag having carried draggedId
Drop(draggedId, target) ==
    /\ target \in 1..Len(PanelList)
    /\ StoreReorderAnnotations(DroppedOrder(PanelList, draggedId, target))
    /\ Did("drop",
           [draggedId |-> draggedId, target |-> PanelList[target],
            newIds |-> DroppedOrder(PanelList, draggedId, target)],
           ~ReorderRejected(annotations, DroppedOrder(PanelList, draggedId, target)), "ok")
    /\ UNCHANGED <<viewerVars, textVars, syncs, appVars, netVars>>

----------------------------------------------------------------------------
(* SpecPanel: a file with three annotations on the first page and one on    *)
(* the second is loaded; the items of the panel, or something that is not  *)
(* an item of it, are dragged onto its items, and items are deleted         *)

PanelDoc ==
    <<Sized(1, 1, 20, 20), Sized(2, 1, 20, 20), Drawn(1, 20, 20), Drawn(2, 20, 20)>>

NextPanel ==
    \/ Pristine /\ SetAnnotations(PanelDoc)
    \/ \E draggedId \in Range(PanelList) \cup {MissingId}, target \in 1..Len(PanelList) :
          Drop(draggedId, target)
    \/ \E id \in Range(PanelList) : DeleteAnnotation(id)

SpecPanel == Init /\ [][NextPanel]_vars

\* the order ids with d moved to immediately before t
MovedBefore(ids, d, t) ==
    LET rest == SelectSeq(ids, LAMBDA x : x # d)
    IN  SubSeq(rest, 1, IndexOf(rest, t) - 1) \o <<d>>
            \o SubSeq(rest, IndexOf(rest, t), Len(rest))

\* C39: a drop of the item d on another item t of the list passes to the
\* store the order of the list with d moved to immediately before t, a
\* permutation of the ids of the page.
C39_DropMovesBefore ==
    [][(last'.op = "drop" /\ last'.arg.draggedId # last'.arg.target) =>
          /\ last'.arg.newIds = MovedBefore(PanelList, last'.arg.draggedId, last'.arg.target)
          /\ IsPermutation(PanelList, last'.arg.newIds)]_vars

====
